---- MODULE Spec2Model ----
(***************************************************************************)
(* LayoutLink: the BASE/OVERRIDE layer model (simple_layers.py), the       *)
(* engine-host layout exporter's layer management (layout_export.py), the  *)
(* engine-host layer protection manager (unreal_layer_manager.py) and the  *)
(* animation-host quick updater (quick_updater.py); further the mesh       *)
(* reference accounting of both layout exporters, the animation exporter's *)
(* keyframe collection (animation_exporter.py), the animation threshold,   *)
(* the name sanitizers, the engine-host importer's animation metadata      *)
(* (layout_import.py) and the camera converter (maya_camera_utils.py).     *)
(*                                                                         *)
(* A path is a sequence of tokens, e.g. "shot_unreal_OVER.usda" is         *)
(* <<"shot", "_unreal", "_OVER", ".usda">>.  Every pattern the code tests  *)
(* or replaces (".usda", "_BASE.usda", "_OVER.usda", "_maya_OVER.usda",    *)
(* "_unreal_OVER.usda", "_maya_OVER", "_unreal_OVER") is a sequence of     *)
(* whole tokens, so substring tests and str.replace are computed on the    *)
(* token sequence exactly as Python computes them on the characters.       *)
(* All files live in one directory whose name contains none of the         *)
(* patterns, so os.path.dirname/basename/join/abspath leave the modelled   *)
(* part of a path alone.                                                   *)
(***************************************************************************)
EXTENDS Integers, Sequences, FiniteSets, TLC

VARIABLES
    disk,       \* the shared directory: existing path -> file (root layer)
    ret,        \* the last operation, its arguments and what it returned
    actor,      \* engine host: the stage-proxy actor's root_layer file path
    proxy,      \* animation host: the proxy shape's filePath and parent rotateX
    hist,       \* the layer types returned by the engine-host exports so far
    pure,       \* TRUE while every operation so far was an engine-host export to MainTarget
    pc,         \* concurrent exporters: each process's position
    loc         \* concurrent exporters: each process's locals

vars == <<disk, ret, actor, proxy, hist, pure, pc, loc>>

----------------------------------------------------------------------------
(* Bounds *)

\* number of distinct selections (stage contents) an export can write
MaxSel == 2
\* number of engine-host export results kept in the history
MaxHist == 3

----------------------------------------------------------------------------
(* Paths *)

NoPath == <<>>

USDA == <<".usda">>
BASE_USDA == <<"_BASE", ".usda">>
OVER_USDA == <<"_OVER", ".usda">>
MAYA_OVER_USDA == <<"_maya", "_OVER", ".usda">>
UNREAL_OVER_USDA == <<"_unreal", "_OVER", ".usda">>

Apps == {"maya", "unreal"}

\* f"_{app_name}" as a token
AppToken(app_name) == IF app_name = "maya" THEN "_maya" ELSE "_unreal"

\* pat occurs in s starting at position i
MatchAt(s, i, pat) ==
    /\ i + Len(pat) - 1 <= Len(s)
    /\ \A k \in 1..Len(pat) : s[i + k - 1] = pat[k]

\* Python: pat in s
Contains(s, pat) == \E i \in 1..Len(s) : MatchAt(s, i, pat)

\* Python: s.replace(old, new), every non-overlapping occurrence, left to right
RECURSIVE ReplaceFrom(_, _, _, _)
ReplaceFrom(s, i, old, new) ==
    IF i > Len(s) THEN <<>>
    ELSE IF MatchAt(s, i, old) THEN new \o ReplaceFrom(s, i + Len(old), old, new)
    ELSE <<s[i]>> \o ReplaceFrom(s, i + 1, old, new)

Replace(s, old, new) == ReplaceFrom(s, 1, old, new)

\* the scene-description library picks the file format by the extension:
\* a path that does not end in ".usda" can be neither created nor opened
IsUsdPath(p) == Len(p) > 0 /\ p[Len(p)] = ".usda"

----------------------------------------------------------------------------
(* Files *)

\* os.path.exists
Exists(d, p) == p \in DOMAIN d

\* os.remove of an existing file
Remove(d, p) == [q \in DOMAIN d \ {p} |-> d[q]]

\* writing file f at path p (created or replaced)
Put(d, p, f) == [q \in DOMAIN d \cup {p} |-> IF q = p THEN f ELSE d[q]]

\* os.rename(src, dst), src exists
Rename(d, src, dst) == Remove(Put(d, dst, d[src]), src)

\* Usd.Stage.Open / Sdf.Layer.FindOrOpen succeed
CanOpen(d, p) == Exists(d, p) /\ IsUsdPath(p)

\* the animation keys of a layer's custom data: keys holds the keys present
\* (without the layoutlink_ prefix), the other fields their values
NoAnim ==
    [keys |-> {}, has_animation |-> FALSE, start_frame |-> 0, end_frame |-> 0,
     fps |-> 0, animated_objects |-> 0, animated_actors |-> 0]

\* Usd.Stage.CreateNew: a root layer with no prims, no sublayers, no custom data
EmptyStage ==
    [prims |-> 0, sublayers |-> <<>>, ltype |-> "none", locked |-> FALSE,
     base_layer |-> NoPath, app |-> "none", created_from |-> NoPath,
     upAxis |-> "unset", anim |-> NoAnim]

\* what a stage-writing call returns: the disk after it, the value returned,
\* and whether it raised instead of returning
Ok(d, v) == [disk |-> d, value |-> v, raised |-> FALSE]
Raised(d) == [disk |-> d, value |-> NoPath, raised |-> TRUE]

----------------------------------------------------------------------------
(* Layer Model: simple_layers.py *)

\* export_path.replace(".usda", "_BASE.usda")
base_path_of(export_path) == Replace(export_path, USDA, BASE_USDA)

\* mutant: the application name is not used in the override's file name
over_path_of_one_name(base_path, app_name) ==
    Replace(base_path, BASE_USDA, <<>>) \o <<"_maya">> \o OVER_USDA

\* basename(base_path).replace("_BASE.usda", "") + f"_{app_name}_OVER.usda"
over_path_of(base_path, app_name) ==
    Replace(base_path, BASE_USDA, <<>>) \o <<AppToken(app_name)>> \o OVER_USDA

\* mutant: the copy is locked but its layer type is not stamped
stamp_base_no_type(f, export_path) ==
    [f EXCEPT !.locked = TRUE, !.created_from = export_path]

\* the three keys create_base_layer adds to the copy's custom data
stamp_base(f, export_path) ==
    [f EXCEPT !.ltype = "base", !.locked = TRUE, !.created_from = export_path]

create_base_layer(d, export_path) ==
    LET base_path == base_path_of(export_path) IN
    IF ~CanOpen(d, export_path) THEN Raised(d)
    ELSE Ok(Put(d, base_path, stamp_base(d[export_path], export_path)), base_path)

\* the custom data create_override_layer sets on the new root layer
stamp_new_override(f, base_path, app_name) ==
    [f EXCEPT !.sublayers = Append(f.sublayers, base_path),
              !.ltype = "override", !.locked = FALSE,
              !.base_layer = base_path, !.app = app_name,
              !.created_from = NoPath]

create_override_layer(d, base_path, app_name) ==
    LET over_path == over_path_of(base_path, app_name) IN
    Ok(Put(d, over_path, stamp_new_override(EmptyStage, base_path, app_name)),
       over_path)

is_base_layer(d, usd_path) ==
    IF Contains(usd_path, BASE_USDA) THEN TRUE
    ELSE IF ~Exists(d, usd_path) THEN FALSE
    ELSE IF CanOpen(d, usd_path) THEN d[usd_path].ltype = "base"
    ELSE FALSE

is_override_layer(d, usd_path) ==
    IF Contains(usd_path, OVER_USDA) THEN TRUE
    ELSE IF ~Exists(d, usd_path) THEN FALSE
    ELSE IF CanOpen(d, usd_path) THEN d[usd_path].ltype = "override"
    ELSE FALSE

get_layer_type(d, usd_path) ==
    IF is_base_layer(d, usd_path) THEN "base"
    ELSE IF is_override_layer(d, usd_path) THEN "override"
    ELSE "unknown"

find_override_layer(d, base_path, app_name) ==
    LET over_path == over_path_of(base_path, app_name) IN
    IF Exists(d, over_path) THEN over_path ELSE NoPath

get_base_from_override(d, over_path) ==
    LET meta == IF CanOpen(d, over_path) THEN d[over_path].base_layer ELSE NoPath
        by_name ==
            IF Contains(over_path, MAYA_OVER_USDA)
                THEN Replace(over_path, MAYA_OVER_USDA, BASE_USDA)
            ELSE IF Contains(over_path, UNREAL_OVER_USDA)
                THEN Replace(over_path, UNREAL_OVER_USDA, BASE_USDA)
            ELSE NoPath
    IN  IF meta # NoPath /\ Exists(d, meta) THEN meta
        ELSE IF by_name # NoPath /\ Exists(d, by_name) THEN by_name
        ELSE NoPath

find_base_layer_for_file(d, file_path) ==
    IF is_base_layer(d, file_path) THEN file_path
    ELSE IF is_override_layer(d, file_path) THEN get_base_from_override(d, file_path)
    ELSE LET base_path == base_path_of(file_path) IN
         IF Exists(d, base_path) THEN base_path ELSE NoPath

get_layer_info(d, usd_path) ==
    LET exists == Exists(d, usd_path)
        layer_type == IF exists THEN get_layer_type(d, usd_path) ELSE "unknown"
        maya_over == find_override_layer(d, usd_path, "maya")
        unreal_over == find_override_layer(d, usd_path, "unreal")
    IN  [path |-> usd_path,
         exists |-> exists,
         layer_type |-> layer_type,
         base_layer |-> IF exists /\ layer_type = "override"
                           THEN get_base_from_override(d, usd_path) ELSE NoPath,
         override_layers |->
             IF exists /\ layer_type = "base"
             THEN (IF maya_over # NoPath THEN <<maya_over>> ELSE <<>>)
                  \o (IF unreal_over # NoPath THEN <<unreal_over>> ELSE <<>>)
             ELSE <<>>]

----------------------------------------------------------------------------
(* Engine-host Layout Exporter: layout_export.py, from the first file      *)
(* operation (line 103) to the returned result.  sel is the selection: 0   *)
(* is the empty selection, sel > 0 names the content the export writes.    *)

\* lines 328-333: sample_actor_animation reads the same transform at every
\* frame, so no actor is counted as animated; the range is the fixed default
EngineAnim ==
    [keys |-> {"has_animation", "start_frame", "end_frame", "fps", "animated_actors"},
     has_animation |-> FALSE, start_frame |-> 1, end_frame |-> 120, fps |-> 24,
     animated_objects |-> 0, animated_actors |-> 0]

\* the stage the exporter saves at line 337: Z-up, stamped by the engine host
export_stage(sel) ==
    [EmptyStage EXCEPT !.prims = sel, !.app = "Unreal Engine", !.upAxis = "Z",
                       !.anim = EngineAnim]

\* mutant: the BASE is not appended to the sublayer list
stamp_export_override_no_sublayer(f, base_path) ==
    [f EXCEPT !.ltype = "override", !.base_layer = base_path, !.app = "unreal"]

\* lines 381-388: append the BASE as sublayer, add the override keys
stamp_export_override(f, base_path) ==
    [f EXCEPT !.sublayers = Append(f.sublayers, base_path),
              !.ltype = "override", !.base_layer = base_path, !.app = "unreal"]

NoResult ==
    [success |-> FALSE, error |-> "", layer_type |-> "none",
     file_path |-> NoPath, base_path |-> NoPath]

Failure(msg) == [NoResult EXCEPT !.error = msg]

Success(layer_type, file_path, base_path) ==
    [success |-> TRUE, error |-> "", layer_type |-> layer_type,
     file_path |-> file_path, base_path |-> base_path]

\* lines 105-107: an existing file at the target is removed first
remove_existing(d, abs_out) == IF Exists(d, abs_out) THEN Remove(d, abs_out) ELSE d

\* mutant: the export is not renamed over the placeholder override
export_as_override_no_rename(d, abs_out, base_path) ==
    LET made == create_override_layer(d, base_path, "unreal") IN
    [disk |-> made.disk, raised |-> FALSE,
     result |-> Success("override", made.value, base_path)]

\* lines 361-406: a BASE exists, the export becomes this application's OVERRIDE
export_as_override(d, abs_out, base_path) ==
    LET made == create_override_layer(d, base_path, "unreal")
        over_path == made.value
        d1 == remove_existing(made.disk, over_path)
    IN  IF ~Exists(d1, abs_out) THEN [disk |-> d1, raised |-> TRUE, result |-> NoResult]
        ELSE LET d2 == Rename(d1, abs_out, over_path)
                 d3 == Put(d2, over_path, stamp_export_override(d2[over_path], base_path))
             IN  [disk |-> d3, raised |-> FALSE,
                  result |-> Success("override", over_path, base_path)]

\* mutant: the temporary export file is not removed after the BASE is made
export_as_base_keep_export(d, abs_out) ==
    LET made == create_base_layer(d, abs_out) IN
    IF made.raised \/ ~Exists(made.disk, abs_out)
    THEN [disk |-> made.disk, raised |-> TRUE, result |-> NoResult]
    ELSE [disk |-> made.disk, raised |-> FALSE,
          result |-> Success("base", made.value, NoPath)]

\* lines 408-433: no BASE yet, the export is promoted to BASE
export_as_base(d, abs_out) ==
    LET made == create_base_layer(d, abs_out) IN
    IF made.raised \/ ~Exists(made.disk, abs_out)
    THEN [disk |-> made.disk, raised |-> TRUE, result |-> NoResult]
    ELSE [disk |-> Remove(made.disk, abs_out), raised |-> FALSE,
          result |-> Success("base", made.value, NoPath)]

\* mutant: the test for an existing BASE is left out
export_selected_to_usd_no_test(d, file_path, sel) ==
    LET abs_out == file_path
        d1 == remove_existing(d, abs_out)
        d2 == Put(d1, abs_out, export_stage(sel))
    IN  IF sel = 0
        THEN [disk |-> d, raised |-> FALSE, result |-> Failure("No actors selected")]
        ELSE IF ~IsUsdPath(abs_out)
        THEN [disk |-> d1, raised |-> TRUE, result |-> NoResult]
        ELSE export_as_base(d2, abs_out)

export_selected_to_usd(d, file_path, sel) ==
    LET abs_out == file_path
        d1 == remove_existing(d, abs_out)
        d2 == Put(d1, abs_out, export_stage(sel))
        base_path == base_path_of(abs_out)
    IN  IF sel = 0
        THEN [disk |-> d, raised |-> FALSE, result |-> Failure("No actors selected")]
        ELSE IF ~IsUsdPath(abs_out)
        THEN [disk |-> d1, raised |-> TRUE, result |-> NoResult]
        ELSE IF Exists(d2, base_path) THEN export_as_override(d2, abs_out, base_path)
        ELSE export_as_base(d2, abs_out)

----------------------------------------------------------------------------
(* Animation-host Layout Exporter: maya_layout_export.py, file effects     *)

\* the stage saved at line 182: Y-up, stamped by the animation host
maya_export_stage(sel) ==
    [EmptyStage EXCEPT !.prims = sel, !.app = "Maya", !.upAxis = "Y"]

maya_export_selected_to_usd(d, file_path, sel) ==
    LET abs_file_path == file_path
        d1 == remove_existing(d, abs_file_path)
    IN  IF sel = 0
        THEN [disk |-> d, raised |-> FALSE, result |-> Failure("No objects selected")]
        ELSE IF ~IsUsdPath(abs_file_path)
        THEN [disk |-> d1, raised |-> TRUE, result |-> NoResult]
        ELSE [disk |-> Put(d1, abs_file_path, maya_export_stage(sel)),
              raised |-> FALSE,
              result |-> Success("none", abs_file_path, NoPath)]

----------------------------------------------------------------------------
(* Engine-host Layer Protection Manager: unreal_layer_manager.py *)

\* setup_from_stage_actor: the actor has a root layer file that opens
setup_from_stage_actor(d, a) == a # NoPath /\ CanOpen(d, a)

\* mutant: the override is created but the actor is not repointed to it
ensure_override_for_edit_no_switch(d, a) ==
    LET current_path == a
        layer_type == get_layer_type(d, current_path)
        made == create_override_layer(d, current_path, "unreal")
    IN  IF ~setup_from_stage_actor(d, a)
        THEN [disk |-> d, actor |-> a, value |-> NoPath]
        ELSE IF layer_type = "base"
        THEN [disk |-> made.disk, actor |-> a, value |-> made.value]
        ELSE [disk |-> d, actor |-> a, value |-> current_path]

ensure_override_for_edit(d, a) ==
    LET current_path == a
        layer_type == get_layer_type(d, current_path)
        made == create_override_layer(d, current_path, "unreal")
    IN  IF ~setup_from_stage_actor(d, a)
        THEN [disk |-> d, actor |-> a, value |-> NoPath]
        ELSE IF layer_type = "override"
        THEN [disk |-> d, actor |-> a, value |-> current_path]
        ELSE IF layer_type = "base"
        THEN [disk |-> made.disk, actor |-> made.value, value |-> made.value]
        ELSE [disk |-> d, actor |-> a, value |-> current_path]

\* custom_data.get("layoutlink_" + key, default)
get(c, key, default) == IF key \in c.keys THEN c[key] ELSE default

\* layout_import.py lines 64-68
DefaultAnim ==
    [has_animation |-> FALSE, start_frame |-> 1, end_frame |-> 120, fps |-> 24,
     animated_count |-> 0]

\* lines 86-90 and 96-100: the five values read from one layer's custom data
read_anim(c) ==
    [has_animation |-> get(c, "has_animation", FALSE),
     start_frame |-> get(c, "start_frame", 1),
     end_frame |-> get(c, "end_frame", 120),
     fps |-> get(c, "fps", 24),
     animated_count |-> get(c, "animated_objects", 0)]

\* mutant: the scan does not stop at the first animated sublayer
RECURSIVE scan_sublayers_no_break(_, _, _)
scan_sublayers_no_break(d, paths, found) ==
    IF paths = <<>> THEN found
    ELSE scan_sublayers_no_break(d, Tail(paths),
             IF CanOpen(d, Head(paths)) /\ get(d[Head(paths)].anim, "has_animation", FALSE)
             THEN read_anim(d[Head(paths)].anim) ELSE found)

\* lines 80-92: the first sublayer that opens and has a truthy has_animation
RECURSIVE scan_sublayers(_, _, _)
scan_sublayers(d, paths, found) ==
    IF paths = <<>> THEN found
    ELSE IF CanOpen(d, Head(paths)) /\ get(d[Head(paths)].anim, "has_animation", FALSE)
    THEN read_anim(d[Head(paths)].anim)
    ELSE scan_sublayers(d, Tail(paths), found)

\* lines 64-109: a file that does not open leaves the defaults
read_animation_metadata(d, abs_file_path) ==
    IF ~CanOpen(d, abs_file_path) THEN DefaultAnim
    ELSE IF d[abs_file_path].sublayers # <<>>
    THEN scan_sublayers(d, d[abs_file_path].sublayers, DefaultAnim)
    ELSE read_anim(d[abs_file_path].anim)

NoSequence ==
    [configured |-> FALSE, fps |-> 0, playback_start |-> 0, playback_end |-> 0,
     view_start |-> 0, view_end |-> 0]

\* lines 115-152: the stage actor's level sequence, when it has one
configure_sequence(anim, has_sequence) ==
    IF anim.has_animation /\ has_sequence
    THEN [configured |-> TRUE, fps |-> anim.fps,
          playback_start |-> anim.start_frame, playback_end |-> anim.end_frame,
          view_start |-> anim.start_frame - 10, view_end |-> anim.end_frame + 10]
    ELSE NoSequence

\* layout_import.py: the file must exist; the spawned stage actor is pointed
\* at it as it is, then the animation metadata is read and the level sequence
\* configured
import_usd_from_maya(d, a, file_path, has_sequence) ==
    IF ~Exists(d, file_path)
    THEN [actor |-> a, result |-> NoResult, anim |-> DefaultAnim,
          sequence |-> NoSequence]
    ELSE LET anim == read_animation_metadata(d, file_path) IN
         [actor |-> file_path, result |-> Success("none", file_path, NoPath),
          anim |-> anim, sequence |-> configure_sequence(anim, has_sequence)]

----------------------------------------------------------------------------
(* State machine of the layer model, the exporters and the stage actor *)

\* the layout name the artists export under, and the targets they may type
MainTarget == <<"shot", ".usda">>
MainBase == <<"shot", "_BASE", ".usda">>
MainOver == <<"shot", "_unreal", "_OVER", ".usda">>
MayaOver == <<"shot", "_maya", "_OVER", ".usda">>
BaseOfBase == <<"shot", "_BASE", "_BASE", ".usda">>
OverOfBase == <<"shot", "_BASE", "_unreal", "_OVER", ".usda">>
BaseOfMayaOver == <<"shot", "_maya", "_OVER", "_BASE", ".usda">>
NoExtension == <<"shot">>
Targets == {MainTarget, MainBase, NoExtension}

\* the file names of the layout: an operation that would write a file of
\* another name is left out of the model
Universe ==
    {MainTarget, MainBase, MainOver, MayaOver, BaseOfBase, OverOfBase, BaseOfMayaOver}

Sels == 0..MaxSel

Fits(d) == DOMAIN d \subseteq Universe

Ret(op, path, app, sel, raised, result, value) ==
    [op |-> op, path |-> path, app |-> app, sel |-> sel, raised |-> raised,
     result |-> result, value |-> value, stage |-> "none"]

\* the last operation was one of the animation host on stage transform s
RetStage(op, s, path, result) ==
    [Ret(op, path, "maya", 0, FALSE, result, NoPath) EXCEPT !.stage = s]

\* the stage transforms the animation-host scene can hold
Stages == {"stage1", "stage2"}

\* no proxy shape under the transform
NoStage == [valid |-> FALSE, filePath |-> NoPath, rotateX |-> 0]

NoProxy == [s \in Stages |-> NoStage]

Init ==
    /\ disk = <<>>
    /\ ret = Ret("init", NoPath, "none", 0, FALSE, NoResult, NoPath)
    /\ actor = NoPath
    /\ proxy = NoProxy
    /\ hist = <<>>
    /\ pure = TRUE
    /\ pc = <<>>
    /\ loc = <<>>

\* the history of export results is kept while only exports to MainTarget ran
Untracked == hist' = <<>> /\ pure' = FALSE

ExportSelectedToUsd(file_path, sel) ==
    LET r == export_selected_to_usd(disk, file_path, sel) IN
    /\ Fits(r.disk)
    /\ disk' = r.disk
    /\ ret' = Ret("export_selected_to_usd", file_path, "unreal", sel, r.raised,
                  r.result, r.result.file_path)
    /\ IF pure /\ file_path = MainTarget /\ Len(hist) < MaxHist
       THEN /\ pure' = TRUE
            /\ hist' = IF r.result.success THEN Append(hist, r.result) ELSE hist
       ELSE Untracked
    /\ UNCHANGED <<actor, proxy, pc, loc>>

MayaExportSelectedToUsd(file_path, sel) ==
    LET r == maya_export_selected_to_usd(disk, file_path, sel) IN
    /\ Fits(r.disk)
    /\ disk' = r.disk
    /\ ret' = Ret("maya_export_selected_to_usd", file_path, "maya", sel, r.raised,
                  r.result, r.result.file_path)
    /\ Untracked
    /\ UNCHANGED <<actor, proxy, pc, loc>>

CreateBaseLayer(export_path) ==
    LET r == create_base_layer(disk, export_path) IN
    /\ Fits(r.disk)
    /\ disk' = r.disk
    /\ ret' = Ret("create_base_layer", export_path, "none", 0, r.raised,
                  NoResult, r.value)
    /\ Untracked
    /\ UNCHANGED <<actor, proxy, pc, loc>>

CreateOverrideLayer(base_path, app_name) ==
    LET r == create_override_layer(disk, base_path, app_name) IN
    /\ Fits(r.disk)
    /\ disk' = r.disk
    /\ ret' = Ret("create_override_layer", base_path, app_name, 0, r.raised,
                  NoResult, r.value)
    /\ Untracked
    /\ UNCHANGED <<actor, proxy, pc, loc>>

\* the read-only operations of the layer model, through get_layer_info
GetLayerInfo(usd_path) ==
    LET info == get_layer_info(disk, usd_path) IN
    /\ ret' = Ret("get_layer_info", usd_path, "none", 0, FALSE,
                  [NoResult EXCEPT !.layer_type = info.layer_type,
                                   !.base_path = info.base_layer],
                  find_base_layer_for_file(disk, usd_path))
    /\ Untracked
    /\ UNCHANGED <<disk, actor, proxy, pc, loc>>

ImportUsdFromMaya(file_path, has_sequence) ==
    LET r == import_usd_from_maya(disk, actor, file_path, has_sequence) IN
    /\ actor' = r.actor
    /\ ret' = [anim |-> r.anim, sequence |-> r.sequence]
              @@ Ret("import_usd_from_maya", file_path, "unreal", 0, FALSE,
                     r.result, NoPath)
    /\ Untracked
    /\ UNCHANGED <<disk, proxy, pc, loc>>

EnsureOverrideForEdit ==
    LET r == ensure_override_for_edit(disk, actor) IN
    /\ Fits(r.disk)
    /\ disk' = r.disk
    /\ actor' = r.actor
    /\ ret' = Ret("ensure_override_for_edit", actor, "unreal", 0, FALSE,
                  NoResult, r.value)
    /\ Untracked
    /\ UNCHANGED <<proxy, pc, loc>>

\* the paths an artist can hand to an operation: the targets and the files
\* on disk
KnownPaths == Targets \cup DOMAIN disk

\* Exports of the engine host and direct override creation
Next ==
    \/ \E t \in Targets, sel \in Sels : ExportSelectedToUsd(t, sel)
    \/ \E p \in KnownPaths, a \in Apps : CreateOverrideLayer(p, a)

Spec == Init /\ [][Next]_vars

\* The layer model's operations on the files an animation-host export leaves
NextLayers ==
    \/ \E sel \in Sels : MayaExportSelectedToUsd(MainTarget, sel)
    \/ \E p \in KnownPaths : CreateBaseLayer(p)
    \/ \E p \in KnownPaths, a \in Apps : CreateOverrideLayer(p, a)
    \/ \E p \in KnownPaths : GetLayerInfo(p)

SpecLayers == Init /\ [][NextLayers]_vars

\* The stage actor of the engine host and its layer protection
NextProtect ==
    \/ \E sel \in Sels : ExportSelectedToUsd(MainTarget, sel)
    \/ \E sel \in Sels : MayaExportSelectedToUsd(MainTarget, sel)
    \/ \E p \in KnownPaths, has_sequence \in BOOLEAN : ImportUsdFromMaya(p, has_sequence)
    \/ EnsureOverrideForEdit

SpecProtect == Init /\ [][NextProtect]_vars

----------------------------------------------------------------------------
(* Animation-host Quick Updater: quick_updater.py, and the importer that   *)
(* creates the stage proxies, maya_layout_import.py.  px is one stage: is  *)
(* there a proxy shape, its filePath, the parent transform's rotateX.      *)

\* rotateX is kept in hundredths of a degree: 90.0 degrees, and the 0.01
\* degree below which update_existing_stage leaves a rotation alone
RightAngle == 9000
Tolerance == 1

\* _get_stage_up_axis: the root layer's up-axis, "Y" when none is authored,
\* "None" when the stage cannot be opened
get_stage_up_axis(d, file_path) ==
    IF ~CanOpen(d, file_path) THEN "None"
    ELSE IF d[file_path].upAxis = "unset" THEN "Y"
    ELSE d[file_path].upAxis

\* maya_layout_import.py 23-86
import_usd_from_unreal(d, px, file_path) ==
    LET up_axis == get_stage_up_axis(d, file_path) IN
    IF ~Exists(d, file_path)
    THEN [proxy |-> px, result |-> Failure("File not found")]
    ELSE [proxy |-> [valid |-> TRUE, filePath |-> file_path,
                     rotateX |-> IF up_axis \in {"None", "Z"} THEN -RightAngle ELSE 0],
          result |-> Success("none", file_path, NoPath)]

\* mutant: the override of the animation host is looked up
find_unreal_override_for_current_wrong_app(d, current_path) ==
    LET base_path == find_base_layer_for_file(d, current_path) IN
    IF base_path = NoPath THEN NoPath
    ELSE find_override_layer(d, base_path, "maya")

find_unreal_override_for_current(d, current_path) ==
    LET base_path == find_base_layer_for_file(d, current_path) IN
    IF base_path = NoPath THEN NoPath
    ELSE find_override_layer(d, base_path, "unreal")

Abs(x) == IF x < 0 THEN -x ELSE x

\* mutant: an override target keeps the rotation it finds
reconcile_rotation_keep_override(d, rot, new_usd_path) ==
    LET layer_type == d[new_usd_path].ltype IN
    IF ~CanOpen(d, new_usd_path) THEN rot
    ELSE IF layer_type = "base"
    THEN (IF get_stage_up_axis(d, new_usd_path) = "Z"
          THEN (IF Abs(rot - (-RightAngle)) > Tolerance THEN -RightAngle ELSE rot)
          ELSE (IF Abs(rot) > Tolerance THEN 0 ELSE rot))
    ELSE rot

\* quick_updater.py 193-232: the parent rotation after the file path changed
reconcile_rotation(d, rot, new_usd_path) ==
    LET layer_type == d[new_usd_path].ltype IN
    IF ~CanOpen(d, new_usd_path) THEN rot
    ELSE IF layer_type = "override"
    THEN (IF Abs(rot) > Tolerance THEN 0 ELSE rot)
    ELSE IF layer_type = "base"
    THEN (IF get_stage_up_axis(d, new_usd_path) = "Z"
          THEN (IF Abs(rot - (-RightAngle)) > Tolerance THEN -RightAngle ELSE rot)
          ELSE (IF Abs(rot) > Tolerance THEN 0 ELSE rot))
    ELSE rot

\* the result's file_path is new_path and its base_path is old_path
update_existing_stage(d, px, new_usd_path) ==
    LET current_path == px.filePath
        found == IF new_usd_path = NoPath
                 THEN find_unreal_override_for_current(d, current_path)
                 ELSE new_usd_path
    IN  IF ~px.valid
        THEN [proxy |-> px, result |-> Failure("Not a valid USD stage")]
        ELSE IF found = NoPath
        THEN [proxy |-> px, result |-> Failure("No Unreal override found")]
        ELSE IF ~Exists(d, found)
        THEN [proxy |-> px, result |-> Failure("File not found")]
        ELSE [proxy |-> [px EXCEPT !.filePath = found,
                                   !.rotateX = reconcile_rotation(d, px.rotateX, found)],
              result |-> Success("none", found, current_path)]

\* mutant: the rotation is cleared but the file path is not reassigned
switch_to_base_layer_keep_path(d, px) ==
    LET current_path == px.filePath
        base_path == find_base_layer_for_file(d, current_path)
    IN  IF ~px.valid
        THEN [proxy |-> px, result |-> Failure("Not a valid stage")]
        ELSE IF base_path = NoPath
        THEN [proxy |-> px, result |-> Failure("Could not find BASE layer")]
        ELSE IF current_path = base_path
        THEN [proxy |-> px, result |-> Success("none", NoPath, NoPath)]
        ELSE [proxy |-> [px EXCEPT !.rotateX = IF get_stage_up_axis(d, base_path) = "Y"
                                               THEN 0 ELSE px.rotateX],
              result |-> Success("none", NoPath, base_path)]

\* quick_updater.py 294-345; the result's base_path is the BASE switched to
switch_to_base_layer(d, px) ==
    LET current_path == px.filePath
        base_path == find_base_layer_for_file(d, current_path)
    IN  IF ~px.valid
        THEN [proxy |-> px, result |-> Failure("Not a valid stage")]
        ELSE IF base_path = NoPath
        THEN [proxy |-> px, result |-> Failure("Could not find BASE layer")]
        ELSE IF current_path = base_path
        THEN [proxy |-> px, result |-> Success("none", NoPath, NoPath)]
        ELSE [proxy |-> [px EXCEPT !.filePath = base_path,
                                   !.rotateX = IF get_stage_up_axis(d, base_path) = "Y"
                                               THEN 0 ELSE px.rotateX],
              result |-> Success("none", NoPath, base_path)]

QuickFrame == UNCHANGED <<disk, actor, hist, pure, pc, loc>>

\* the importer creates a new transform and proxy shape
ImportUsdFromUnreal(s, file_path) ==
    LET r == import_usd_from_unreal(disk, proxy[s], file_path) IN
    /\ ~proxy[s].valid
    /\ proxy' = [proxy EXCEPT ![s] = r.proxy]
    /\ ret' = RetStage("import_usd_from_unreal", s, file_path, r.result)
    /\ QuickFrame

UpdateExistingStage(s, new_usd_path) ==
    LET r == update_existing_stage(disk, proxy[s], new_usd_path) IN
    /\ proxy' = [proxy EXCEPT ![s] = r.proxy]
    /\ ret' = [old_rotateX |-> proxy[s].rotateX]
              @@ RetStage("update_existing_stage", s, new_usd_path, r.result)
    /\ QuickFrame

\* the call before this one was a successful quick update of the same stage
UpdatedBefore(s) ==
    ret.op = "update_existing_stage" /\ ret.stage = s /\ ret.result.success

SwitchToBaseLayer(s) ==
    LET r == switch_to_base_layer(disk, proxy[s]) IN
    /\ proxy' = [proxy EXCEPT ![s] = r.proxy]
    /\ ret' = [before |-> proxy[s],
               updated_from |-> IF UpdatedBefore(s) THEN ret.result.base_path ELSE NoPath,
               updated_auto |-> UpdatedBefore(s) /\ ret.path = NoPath]
              @@ RetStage("switch_to_base_layer", s, NoPath, r.result)
    /\ QuickFrame

\* The quick updater on the files the two exporters leave
NextQuick ==
    \/ \E sel \in Sels : ExportSelectedToUsd(MainTarget, sel)
    \/ \E sel \in Sels : MayaExportSelectedToUsd(MainTarget, sel)
    \/ \E s \in Stages, p \in KnownPaths : ImportUsdFromUnreal(s, p)
    \/ \E s \in Stages, p \in KnownPaths \cup {NoPath} : UpdateExistingStage(s, p)
    \/ \E s \in Stages : SwitchToBaseLayer(s)

SpecQuick == Init /\ [][NextQuick]_vars

----------------------------------------------------------------------------
(* Two exporter processes on one target, no locking: export_selected_to_usd *)
(* of layout_export.py and the create_base_layer / create_override_layer    *)
(* it calls, one file operation per step.  Process i exports selection i.   *)

Procs == {1, 2}

RaceTarget == MainTarget
RaceBase == base_path_of(RaceTarget)
RaceOver == over_path_of(RaceBase, "unreal")

InitRace ==
    /\ disk = <<>>
    /\ ret = Ret("init", NoPath, "none", 0, FALSE, NoResult, NoPath)
    /\ actor = NoPath
    /\ proxy = NoProxy
    /\ hist = <<>>
    /\ pure = FALSE
    /\ pc = [i \in Procs |-> "remove"]
    /\ loc = [i \in Procs |-> [sel |-> i, stage |-> EmptyStage]]

Goto(i, label) == pc' = [pc EXCEPT ![i] = label]

RaceFrame == UNCHANGED <<ret, actor, proxy, hist, pure>>

\* layout_export.py 105-109: remove an existing file at the target
RemoveOld(i) ==
    /\ pc[i] = "remove"
    /\ disk' = remove_existing(disk, RaceTarget)
    /\ Goto(i, "write")
    /\ UNCHANGED loc /\ RaceFrame

\* layout_export.py 111-337: create the stage, fill it, save it
WritePlain(i) ==
    /\ pc[i] = "write"
    /\ disk' = Put(disk, RaceTarget, export_stage(loc[i].sel))
    /\ Goto(i, "test")
    /\ UNCHANGED loc /\ RaceFrame

\* layout_export.py 361-363: does the BASE exist?
TestBase(i) ==
    /\ pc[i] = "test"
    /\ Goto(i, IF Exists(disk, RaceBase) THEN "create_over" ELSE "open_source")
    /\ UNCHANGED <<disk, loc>> /\ RaceFrame

\* simple_layers.py 48-50: open the export as the source stage
OpenSource(i) ==
    /\ pc[i] = "open_source"
    /\ IF CanOpen(disk, RaceTarget)
       THEN /\ loc' = [loc EXCEPT ![i].stage = disk[RaceTarget]]
            /\ Goto(i, "export_base")
       ELSE /\ UNCHANGED loc
            /\ Goto(i, "raised")
    /\ UNCHANGED disk /\ RaceFrame

\* simple_layers.py 53: source_stage.Export(base_path)
ExportBase(i) ==
    /\ pc[i] = "export_base"
    /\ disk' = Put(disk, RaceBase, loc[i].stage)
    /\ Goto(i, "stamp_base")
    /\ UNCHANGED loc /\ RaceFrame

\* simple_layers.py 56-63: reopen the BASE, add the three keys, save
StampBase(i) ==
    /\ pc[i] = "stamp_base"
    /\ disk' = IF CanOpen(disk, RaceBase)
               THEN Put(disk, RaceBase, stamp_base(disk[RaceBase], RaceTarget))
               ELSE disk
    /\ Goto(i, "remove_plain")
    /\ UNCHANGED loc /\ RaceFrame

\* layout_export.py 417: remove the plain export
RemovePlain(i) ==
    /\ pc[i] = "remove_plain"
    /\ IF Exists(disk, RaceTarget)
       THEN disk' = Remove(disk, RaceTarget) /\ Goto(i, "done")
       ELSE UNCHANGED disk /\ Goto(i, "raised")
    /\ UNCHANGED loc /\ RaceFrame

\* layout_export.py 369: create_override_layer writes the placeholder override
CreateOver(i) ==
    /\ pc[i] = "create_over"
    /\ disk' = create_override_layer(disk, RaceBase, "unreal").disk
    /\ Goto(i, "remove_over")
    /\ UNCHANGED loc /\ RaceFrame

\* layout_export.py 372-373: remove the placeholder
RemoveOver(i) ==
    /\ pc[i] = "remove_over"
    /\ disk' = remove_existing(disk, RaceOver)
    /\ Goto(i, "rename")
    /\ UNCHANGED loc /\ RaceFrame

\* layout_export.py 376: rename the export to the override's name
RenamePlain(i) ==
    /\ pc[i] = "rename"
    /\ IF Exists(disk, RaceTarget)
       THEN disk' = Rename(disk, RaceTarget, RaceOver) /\ Goto(i, "stamp_over")
       ELSE UNCHANGED disk /\ Goto(i, "raised")
    /\ UNCHANGED loc /\ RaceFrame

\* layout_export.py 379-389: reopen the override, add sublayer and keys, save
StampOver(i) ==
    /\ pc[i] = "stamp_over"
    /\ IF CanOpen(disk, RaceOver)
       THEN /\ disk' = Put(disk, RaceOver,
                           stamp_export_override(disk[RaceOver], RaceBase))
            /\ Goto(i, "done")
       ELSE UNCHANGED disk /\ Goto(i, "raised")
    /\ UNCHANGED loc /\ RaceFrame

NextRace ==
    \E i \in Procs :
        \/ RemoveOld(i)
        \/ WritePlain(i)
        \/ TestBase(i)
        \/ OpenSource(i)
        \/ ExportBase(i)
        \/ StampBase(i)
        \/ RemovePlain(i)
        \/ CreateOver(i)
        \/ RemoveOver(i)
        \/ RenamePlain(i)
        \/ StampOver(i)

SpecRace == InitRace /\ [][NextRace]_vars

\* C4: under every interleaving of two exporter processes on one target, a
\* BASE file that has been written (saved with layoutlink_locked=true) is
\* never written or replaced a second time.
C4_BaseWrittenOnce ==
    [][(Exists(disk, RaceBase) /\ disk[RaceBase].locked)
          => (Exists(disk', RaceBase) /\ disk'[RaceBase] = disk[RaceBase])]_vars

----------------------------------------------------------------------------
(* Properties of the engine-host export and of override creation (Spec) *)

\* the step just taken is an engine-host export to file_path
ExportStepTo(file_path) ==
    /\ ret'.op = "export_selected_to_usd"
    /\ ret'.path = file_path

HasLockedBase == Exists(disk, MainBase) /\ disk[MainBase].locked

\* what C1 asks of an export to MainTarget made while the locked BASE exists
BaseKeptOverrideFresh ==
    /\ Exists(disk', MainBase) /\ disk'[MainBase] = disk[MainBase]
    /\ Exists(disk', MainOver) /\ disk'[MainOver].prims = ret'.sel
    /\ DOMAIN disk' \ DOMAIN disk \subseteq {MainOver}

C2_LockedFilesSurviveExport ==
    [][(ret'.op = "export_selected_to_usd")
          => \A p \in DOMAIN disk :
                disk[p].locked => (Exists(disk', p) /\ disk'[p] = disk[p])]_vars

\* C5: from an empty directory, the first successful export to shot.usda
\* returns "base" with file_path shot_BASE.usda, and every later one returns
\* "override" with file_path shot_unreal_OVER.usda and the first export's BASE
\* as base_path; no "base" result follows an "override" result.
C5_ExportResultOrder ==
    pure =>
        \A i \in 1..Len(hist) :
            IF i = 1
            THEN hist[i].layer_type = "base" /\ hist[i].file_path = MainBase
            ELSE /\ hist[i].layer_type = "override"
                 /\ hist[i].file_path = MainOver
                 /\ hist[i].base_path = hist[1].file_path

C5_Witness ==
    /\ pure /\ Len(hist) = MaxHist
    /\ hist[MaxHist].layer_type = "override"

\* C6: an engine-host export to <name>.usda leaves <name>_maya_OVER.usda as it
\* was: present with the same content, or absent.
C6_MayaOverrideUntouched ==
    [][\A t \in Targets :
          ExportStepTo(t) =>
              LET maya_over == Replace(t, USDA, MAYA_OVER_USDA) IN
              /\ Exists(disk', maya_over) <=> Exists(disk, maya_over)
              /\ Exists(disk, maya_over) => disk'[maya_over] = disk[maya_over]]_vars

\* an export has rewritten the engine host's override next to a maya override
C6_Witness ==
    /\ ret.op = "export_selected_to_usd" /\ ret.path = MainTarget
    /\ ret.result.layer_type = "override"
    /\ Exists(disk, MayaOver) /\ Exists(disk, MainOver)

\* C8: between operations, every OVERRIDE file has a sublayer list holding its
\* BASE path once and nothing else, layoutlink_layer_type = "override" and
\* layoutlink_base_layer equal to that BASE path.
C8_OverrideStructure ==
    \A p \in DOMAIN disk :
        get_layer_type(disk, p) = "override" =>
            /\ disk[p].ltype = "override"
            /\ disk[p].base_layer # NoPath
            /\ disk[p].sublayers = <<disk[p].base_layer>>
            /\ p = Replace(disk[p].base_layer, BASE_USDA, <<>>)
                       \o <<AppToken(disk[p].app)>> \o OVER_USDA

\* an exported override and a directly created one are on disk together
C8_Witness ==
    /\ Exists(disk, MainOver) /\ disk[MainOver].prims > 0
    /\ Exists(disk, MayaOver) /\ disk[MayaOver].prims = 0

----------------------------------------------------------------------------
(* Properties of the layer model (SpecLayers) *)

\* C3: under the layer model's operations, a BASE file that has been written
\* keeps its content and custom metadata for ever.
C3_BaseNeverRewritten ==
    [][\A p \in DOMAIN disk :
          disk[p].locked => (Exists(disk', p) /\ disk'[p] = disk[p])]_vars

\* a name with neither "_BASE.usda" nor "_OVER.usda" in it
Neutral == <<"renamed", ".usda">>

\* the role of the file at path p, read after the file is renamed to Neutral
RoleAfterRename(p) == get_layer_type(Rename(disk, p, Neutral), Neutral)

\* C7: a file produced by create_base_layer has role "base" and a file
\* produced by create_override_layer has role "override", under the name it
\* was given and after a rename to a name that matches no pattern.
C7_RoleDetection ==
    /\ (ret.op = "create_base_layer" /\ ~ret.raised) =>
          /\ Exists(disk, ret.value)
          /\ get_layer_type(disk, ret.value) = "base"
          /\ RoleAfterRename(ret.value) = "base"
    /\ (ret.op = "create_override_layer" /\ ~ret.raised) =>
          /\ Exists(disk, ret.value)
          /\ get_layer_type(disk, ret.value) = "override"
          /\ RoleAfterRename(ret.value) = "override"

\* a BASE was made from an override file: its copied custom data said "override"
C7_Witness ==
    /\ ret.op = "create_base_layer" /\ ~ret.raised
    /\ ret.path = MayaOver /\ ret.value = BaseOfMayaOver
    /\ disk[BaseOfMayaOver].sublayers # <<>>

----------------------------------------------------------------------------
(* Properties of the layer protection manager (SpecProtect) *)

\* the engine host's override for a BASE named <name>_BASE.usda
EngineOverrideOf(b) == SubSeq(b, 1, Len(b) - 2) \o UNREAL_OVER_USDA

\* C9: ensure_override_for_edit on an actor whose file opens: if the file is a
\* BASE, the actor ends on the engine host's override of that BASE, which is
\* the path returned, and the BASE file is unchanged; if it is an override or
\* of unknown role, the actor's path and the disk are unchanged.
C9_LayerProtection ==
    [][(ret'.op = "ensure_override_for_edit" /\ setup_from_stage_actor(disk, actor))
          => IF get_layer_type(disk, actor) = "base"
             THEN /\ actor' = EngineOverrideOf(actor)
                  /\ actor' # actor
                  /\ ret'.value = actor'
                  /\ get_layer_type(disk', actor') = "override"
                  /\ Exists(disk', actor')
                  /\ Exists(disk', actor) /\ disk'[actor] = disk[actor]
             ELSE /\ actor' = actor
                  /\ ret'.value = actor
                  /\ disk' = disk]_vars

\* the actor was on the BASE and has been moved to the override
C9_Witness ==
    /\ ret.op = "ensure_override_for_edit"
    /\ ret.path = MainBase
    /\ actor = MainOver /\ ret.value = MainOver
    /\ HasLockedBase

----------------------------------------------------------------------------
(* Properties of the quick updater (SpecQuick) *)

\* C10: for a stage whose current file resolves to BASE path B,
\* update_existing_stage with no explicit target sets filePath to the engine
\* host's override of B when that file exists; otherwise it returns
\* success=false with a non-empty error, raises nothing, and leaves filePath
\* and rotateX as they were.
C10_QuickUpdateResolution ==
    [][LET s == ret'.stage IN
       (ret'.op = "update_existing_stage" /\ ret'.path = NoPath) =>
          LET px == proxy[s]
              B == find_base_layer_for_file(disk, px.filePath)
          IN  (px.valid /\ B # NoPath) =>
                 IF Exists(disk, EngineOverrideOf(B))
                 THEN /\ ret'.result.success
                      /\ proxy'[s].filePath = EngineOverrideOf(B)
                 ELSE /\ ~ret'.result.success
                      /\ ret'.result.error # ""
                      /\ ~ret'.raised
                      /\ proxy'[s] = px]_vars

\* a stage loaded on the BASE was moved to the engine host's override
C10_Witness ==
    /\ ret.op = "update_existing_stage" /\ ret.path = NoPath
    /\ ret.result.success
    /\ ret.result.base_path = MainBase
    /\ proxy[ret.stage].filePath = MainOver


----------------------------------------------------------------------------
(* Mesh references: the per-object accounting of both layout exporters.   *)
(* A selected object is a camera, an object with a mesh, or an object with *)
(* neither; the asset library is a directory that may not exist and, when  *)
(* it exists, holds <mesh>.usda files.                                     *)

MeshNames == {"chair", "table"}

Camera == [kind |-> "camera", mesh |-> "none"]
NoMesh == [kind |-> "empty", mesh |-> "none"]
MeshActor(m) == [kind |-> "mesh", mesh |-> m]

Actors == {Camera, NoMesh} \cup {MeshActor(m) : m \in MeshNames}

\* os.path.isdir(asset_library_dir) and the mesh files found in it
Libraries ==
    {[exists |-> FALSE, files |-> {}]}
    \cup {[exists |-> TRUE, files |-> F] : F \in SUBSET MeshNames}

Selections == UNION {[1..n -> Actors] : n \in 0..MaxSel}

\* layout_export.py lines 124-129
NoCounts ==
    [exported |-> 0, with_refs |-> 0, without_refs |-> 0, cameras |-> 0,
     missing_meshes |-> <<>>]

\* mutant: the camera branch does not leave the loop body, a camera is
\* counted without reference as well
count_actor_camera_falls_through(c, a, lib) ==
    LET found == a.kind = "mesh" /\ lib.exists /\ a.mesh \in lib.files IN
    [c EXCEPT !.cameras = IF a.kind = "camera" THEN @ + 1 ELSE @,
              !.with_refs = IF found THEN @ + 1 ELSE @,
              !.missing_meshes =
                  IF a.kind = "mesh" /\ ~found THEN Append(@, a.mesh) ELSE @,
              !.without_refs = IF found THEN @ ELSE @ + 1,
              !.exported = @ + 1]

\* layout_export.py lines 133-316, one pass of the loop over the selection
count_actor(c, a, lib) ==
    IF a.kind = "camera"
    THEN [c EXCEPT !.cameras = @ + 1, !.exported = @ + 1]
    ELSE LET found == a.kind = "mesh" /\ lib.exists /\ a.mesh \in lib.files IN
         [c EXCEPT !.with_refs = IF found THEN @ + 1 ELSE @,
                   !.missing_meshes =
                       IF a.kind = "mesh" /\ ~found THEN Append(@, a.mesh) ELSE @,
                   !.without_refs = IF found THEN @ ELSE @ + 1,
                   !.exported = @ + 1]

RECURSIVE count_actors(_, _, _)
count_actors(selected, lib, c) ==
    IF selected = <<>> THEN c
    ELSE count_actors(Tail(selected), lib, count_actor(c, Head(selected), lib))

\* maya_layout_export.py lines 99-170, one pass of the loop: a camera is a
\* transform without a mesh shape
maya_count_object(c, obj, lib) ==
    LET has_mesh == obj.kind = "mesh"
        found == has_mesh /\ lib.exists /\ obj.mesh \in lib.files
    IN  [c EXCEPT !.with_refs = IF found THEN @ + 1 ELSE @,
                  !.missing_meshes =
                      IF has_mesh /\ ~found /\ lib.exists THEN Append(@, obj.mesh)
                      ELSE @,
                  !.without_refs = IF found THEN @ ELSE @ + 1,
                  !.exported = @ + 1]

RECURSIVE maya_count_objects(_, _, _)
maya_count_objects(selected, lib, c) ==
    IF selected = <<>> THEN c
    ELSE maya_count_objects(Tail(selected), lib,
                            maya_count_object(c, Head(selected), lib))

\* the engine-host export with its counters: the selection's size names the
\* content written
ExportWithLibrary(selected, lib) ==
    LET r == export_selected_to_usd(disk, MainTarget, Len(selected)) IN
    /\ Fits(r.disk)
    /\ disk' = r.disk
    /\ ret' = [host |-> "unreal", selected |-> selected, lib |-> lib,
               counts |-> IF r.result.success
                          THEN count_actors(selected, lib, NoCounts) ELSE NoCounts]
              @@ Ret("export_selected_to_usd", MainTarget, "unreal", Len(selected),
                     r.raised, r.result, r.result.file_path)
    /\ Untracked
    /\ UNCHANGED <<actor, proxy, pc, loc>>

MayaExportWithLibrary(selected, lib) ==
    LET r == maya_export_selected_to_usd(disk, MainTarget, Len(selected)) IN
    /\ Fits(r.disk)
    /\ disk' = r.disk
    /\ ret' = [host |-> "maya", selected |-> selected, lib |-> lib,
               counts |-> IF r.result.success
                          THEN maya_count_objects(selected, lib, NoCounts)
                          ELSE NoCounts]
              @@ Ret("maya_export_selected_to_usd", MainTarget, "maya",
                     Len(selected), r.raised, r.result, r.result.file_path)
    /\ Untracked
    /\ UNCHANGED <<actor, proxy, pc, loc>>

NextAssets ==
    \/ \E selected \in Selections, lib \in Libraries : ExportWithLibrary(selected, lib)
    \/ \E selected \in Selections, lib \in Libraries :
           MayaExportWithLibrary(selected, lib)

SpecAssets == Init /\ [][NextAssets]_vars

\* the mesh objects of a selection
MeshCount(selected) == Cardinality({i \in DOMAIN selected : selected[i].kind = "mesh"})

\* C11: with a non-empty selection and no asset-library directory, either
\* host's export succeeds, attaches no reference, counts every mesh object as
\* without reference and reports no missing mesh; a name is in missing_meshes
\* only if the library exists and the mesh's file is absent
C11_MissingLibraryTolerance ==
    (ret.op # "init" /\ ret.selected # <<>>) =>
        /\ ~ret.lib.exists =>
              /\ ret.result.success
              /\ ret.counts.with_refs = 0
              /\ ret.counts.without_refs >= MeshCount(ret.selected)
              /\ ret.counts.missing_meshes = <<>>
        /\ \A i \in DOMAIN ret.counts.missing_meshes :
              ret.lib.exists /\ ret.counts.missing_meshes[i] \notin ret.lib.files


\* C12: an engine-host export with an empty selection reports failure with a
\* message and leaves on disk a minimal stage (no object prims, written by
\* the engine-host exporter) at the target or at one of its layer files
C12_EmptySelectionWritesStage ==
    [][(ret'.op = "export_selected_to_usd" /\ ret'.sel = 0) =>
          /\ ~ret'.result.success
          /\ ret'.result.error # ""
          /\ \E p \in DOMAIN disk' : disk'[p].prims = 0 /\ disk'[p].upAxis = "Z"]_vars


\* the automation callables whose returned map is recorded in ret.result (an
\* absent "error" key is recorded as the empty string)
AutomationCallables ==
    {"export_selected_to_usd", "maya_export_selected_to_usd", "import_usd_from_maya",
     "import_usd_from_unreal", "update_existing_stage", "switch_to_base_layer"}

\* C13: every failure result an automation callable returns has success=false
\* together with a non-empty error string
C13_FailureCarriesError ==
    (ret.op \in AutomationCallables /\ ~ret.raised /\ ~ret.result.success)
        => ret.result.error # ""


----------------------------------------------------------------------------
(* Animation-host animation exporter: animation_exporter.py.  An object is *)
(* the keyframe times of its nine transform channels.                      *)

\* the last frame of the timeline
MaxFrame == 3

Times == 0..MaxFrame

\* attrs, line 64
Channels == {"tx", "ty", "tz", "rx", "ry", "rz", "sx", "sy", "sz"}

\* an object keyed on at most two channels
Keyed(c1, K1, c2, K2) ==
    [c \in Channels |-> IF c = c1 THEN K1 ELSE IF c = c2 THEN K2 ELSE {}]

Objects == {Keyed(c1, K1, c2, K2) : c1, c2 \in Channels, K1, K2 \in SUBSET Times}

\* the frame ranges an export is run over
Frames == 1..(MaxFrame - 1)

\* cmds.keyframe(attr, query=True, keyframeCount=True)
keyframe_count(obj, attr) == Cardinality(obj[attr])

\* cmds.keyframe(attr, query=True, time=(start, end), timeChange=True)
keyframe_times(obj, attr, start_frame, end_frame) ==
    {t \in obj[attr] : start_frame <= t /\ t <= end_frame}

\* sorted(list(keyframes))
RECURSIVE sorted(_)
sorted(S) ==
    IF S = {} THEN <<>>
    ELSE LET m == CHOOSE x \in S : \A y \in S : x <= y IN <<m>> \o sorted(S \ {m})

get_all_keyframes(obj, start_frame, end_frame) ==
    LET keyframes ==
            UNION {IF keyframe_count(obj, attr) > 0
                   THEN keyframe_times(obj, attr, start_frame, end_frame)
                   ELSE {} : attr \in Channels}
    IN  sorted(IF keyframes # {} THEN keyframes \cup {start_frame, end_frame}
               ELSE keyframes)

\* the scene before the call: an object and a frame range
InitKeys ==
    /\ disk = <<>> /\ actor = NoPath /\ proxy = NoProxy
    /\ hist = <<>> /\ pure = TRUE /\ pc = <<>> /\ loc = <<>>
    /\ \E obj \in Objects, start_frame \in Frames, end_frame \in Frames :
          /\ start_frame <= end_frame
          /\ ret = [op |-> "scene", object |-> obj, start |-> start_frame,
                    end |-> end_frame, value |-> <<>>]

GetAllKeyframes ==
    /\ ret.op = "scene"
    /\ ret' = [ret EXCEPT !.op = "get_all_keyframes",
                          !.value = get_all_keyframes(ret.object, ret.start, ret.end)]
    /\ UNCHANGED <<disk, actor, proxy, hist, pure, pc, loc>>

NextKeys == GetAllKeyframes

SpecKeys == InitKeys /\ [][NextKeys]_vars

\* every keyframe time of an object, on any channel
AllKeys(obj) == UNION {obj[c] : c \in Channels}

\* C14: the list get_all_keyframes returns is strictly ascending and holds
\* exactly the keyframe times of the nine channels inside [start, end],
\* together with start and end whenever the object has a keyframe anywhere;
\* it is empty when the object has no keyframe
C14_AllKeyframes ==
    (ret.op = "get_all_keyframes") =>
        LET inside == {t \in AllKeys(ret.object) : ret.start <= t /\ t <= ret.end}
            expected == IF AllKeys(ret.object) = {} THEN {}
                        ELSE inside \cup {ret.start, ret.end}
        IN  /\ \A i \in 1..(Len(ret.value) - 1) : ret.value[i] < ret.value[i + 1]
            /\ {ret.value[i] : i \in DOMAIN ret.value} = expected


----------------------------------------------------------------------------
(* Animation threshold of the engine host: has_varying_samples in          *)
(* layout_export.py and in animation_sequence_reader.py.  A sample set is  *)
(* absent (None), an empty dict, or three series with one value per        *)
(* sampled frame; two sampled transforms are the same number iff equal.    *)

\* number of frames sampled
MaxSamples == 2

\* the distinct values a sampled translate, rotate or scale can take
SampleValues == {0, 1}

Series(n) == [1..n -> SampleValues]

NoSamples == [kind |-> "none", translate |-> <<>>, rotate |-> <<>>, scale |-> <<>>]
EmptySamples == [NoSamples EXCEPT !.kind = "empty"]

SampleSets ==
    {NoSamples, EmptySamples}
    \cup UNION {[kind : {"series"}, translate : Series(n), rotate : Series(n),
                 scale : Series(n)] : n \in 0..MaxSamples}

\* len(set(list(series.values())))
distinct_values(series) == Cardinality({series[i] : i \in DOMAIN series})

\* mutant: the scale series is not looked at
has_varying_samples_no_scale(samples) ==
    IF samples.kind # "series" THEN [raised |-> TRUE, value |-> FALSE]
    ELSE [raised |-> FALSE,
          value |-> IF distinct_values(samples.translate) > 1 THEN TRUE
                    ELSE distinct_values(samples.rotate) > 1]

\* layout_export.py lines 58-75: subscripting None or a dict without the
\* series raises
has_varying_samples(samples) ==
    IF samples.kind # "series" THEN [raised |-> TRUE, value |-> FALSE]
    ELSE [raised |-> FALSE,
          value |-> IF distinct_values(samples.translate) > 1 THEN TRUE
                    ELSE IF distinct_values(samples.rotate) > 1 THEN TRUE
                    ELSE distinct_values(samples.scale) > 1]

\* animation_sequence_reader.py lines 193-213: "if not samples" first
reader_has_varying_samples(samples) ==
    IF samples.kind # "series" THEN [raised |-> FALSE, value |-> FALSE]
    ELSE [raised |-> FALSE,
          value |-> IF distinct_values(samples.translate) > 1 THEN TRUE
                    ELSE IF distinct_values(samples.rotate) > 1 THEN TRUE
                    ELSE distinct_values(samples.scale) > 1]

InitSamples ==
    /\ disk = <<>> /\ actor = NoPath /\ proxy = NoProxy
    /\ hist = <<>> /\ pure = TRUE /\ pc = <<>> /\ loc = <<>>
    /\ \E samples \in SampleSets :
          ret = [op |-> "samples", samples |-> samples,
                 result |-> [raised |-> FALSE, value |-> FALSE]]

HasVaryingSamples ==
    /\ ret.op = "samples"
    /\ ret' = [ret EXCEPT !.op = "has_varying_samples",
                          !.result = has_varying_samples(ret.samples)]
    /\ UNCHANGED <<disk, actor, proxy, hist, pure, pc, loc>>

ReaderHasVaryingSamples ==
    /\ ret.op = "samples"
    /\ ret' = [ret EXCEPT !.op = "reader_has_varying_samples",
                          !.result = reader_has_varying_samples(ret.samples)]
    /\ UNCHANGED <<disk, actor, proxy, hist, pure, pc, loc>>

NextSamples == HasVaryingSamples \/ ReaderHasVaryingSamples

SpecSamples == InitSamples /\ [][NextSamples]_vars

\* some series of the sample set holds more than one distinct value
Varies(samples) ==
    \E series \in {samples.translate, samples.rotate, samples.scale} :
        \E i, j \in DOMAIN series : series[i] # series[j]

\* C15: on three series either copy of has_varying_samples answers true iff
\* some series holds more than one distinct value, so the two copies agree;
\* the reader's copy answers false for an absent or empty sample set
C15_AnimationThreshold ==
    /\ (ret.op = "has_varying_samples" /\ ret.samples.kind = "series") =>
          /\ ~ret.result.raised
          /\ ret.result.value = Varies(ret.samples)
          /\ ret.result = reader_has_varying_samples(ret.samples)
    /\ (ret.op = "reader_has_varying_samples") =>
          /\ ~ret.result.raised
          /\ ret.result.value = (ret.samples.kind = "series" /\ Varies(ret.samples))

C15_Witness ==
    /\ ret.op = "has_varying_samples"
    /\ ret.result.value
    /\ distinct_values(ret.samples.translate) = 1
    /\ distinct_values(ret.samples.rotate) = 1
    /\ distinct_values(ret.samples.scale) = 2


----------------------------------------------------------------------------
(* The four name sanitizers.  A name is a sequence of characters; the      *)
(* punctuation characters are written by name: lt <, gt >, colon :,        *)
(* quote ", slash /, backslash \, pipe |, question ?, star *, dot ., space *)

\* longest name sanitized
MaxNameLen == 2

\* bad, layout_export.py line 11; invalid_chars, maya_layout_export.py line 12
InvalidNameChars ==
    <<"lt", "gt", "colon", "quote", "slash", "backslash", "pipe", "question",
      "star", "dot", "space">>

\* invalid_chars, mesh_export.py line 21 and maya_mesh_export.py line 25
InvalidFileChars ==
    <<"lt", "gt", "colon", "quote", "slash", "backslash", "pipe", "question", "star">>

Alphabet == {"a", "_"} \cup {InvalidNameChars[i] : i \in DOMAIN InvalidNameChars}

Names == UNION {[1..n -> Alphabet] : n \in 0..MaxNameLen}

\* name.replace(ch, "_")
replace_char(name, ch) == [i \in DOMAIN name |-> IF name[i] = ch THEN "_" ELSE name[i]]

\* for ch in bad: name = name.replace(ch, "_")
RECURSIVE replace_chars(_, _)
replace_chars(name, bad) ==
    IF bad = <<>> THEN name
    ELSE replace_chars(replace_char(name, Head(bad)), Tail(bad))

\* name.split(sep)[-1]: what follows the last separator
last_part(name, sep) ==
    LET at == {i \in DOMAIN name : name[i] = sep}
        from == IF at = {} THEN 0 ELSE CHOOSE i \in at : \A j \in at : j <= i
    IN  SubSeq(name, from + 1, Len(name))

\* mutant: the sanitized name also gets a leading underscore
sanitize_with_prefix(name) == <<"_">> \o replace_chars(name, InvalidNameChars)

\* layout_export.py _sanitize
sanitize(name) == replace_chars(name, InvalidNameChars)

\* mesh_export.py sanitize_filename
sanitize_filename(name) == replace_chars(name, InvalidFileChars)

\* maya_layout_export.py sanitize_name
maya_sanitize_name(name) ==
    last_part(last_part(replace_chars(name, InvalidNameChars), "colon"), "pipe")

\* maya_mesh_export.py sanitize_filename
maya_sanitize_filename(name) ==
    last_part(last_part(replace_chars(name, InvalidFileChars), "colon"), "pipe")

Sanitizers == {"_sanitize", "sanitize_filename", "sanitize_name", "maya_sanitize_filename"}

InitNames ==
    /\ disk = <<>> /\ actor = NoPath /\ proxy = NoProxy
    /\ hist = <<>> /\ pure = TRUE /\ pc = <<>> /\ loc = <<>>
    /\ \E name \in Names :
          ret = [op |-> "name", name |-> name, prev |-> name, value |-> name,
                 times |-> 0]

\* a sanitizer f is applied to the name, or once more to its own result
Sanitized(f, v) ==
    /\ ret.op \in {"name", f}
    /\ ret.times < 2
    /\ ret' = [ret EXCEPT !.op = f, !.prev = ret.value, !.value = v,
                          !.times = ret.times + 1]
    /\ UNCHANGED <<disk, actor, proxy, hist, pure, pc, loc>>

Sanitize == Sanitized("_sanitize", sanitize(ret.value))
SanitizeFilename == Sanitized("sanitize_filename", sanitize_filename(ret.value))
MayaSanitizeName == Sanitized("sanitize_name", maya_sanitize_name(ret.value))
MayaSanitizeFilename ==
    Sanitized("maya_sanitize_filename", maya_sanitize_filename(ret.value))

NextNames == Sanitize \/ SanitizeFilename \/ MayaSanitizeName \/ MayaSanitizeFilename

SpecNames == InitNames /\ [][NextNames]_vars

\* the characters sanitizer f treats as invalid
InvalidFor(f) ==
    IF f \in {"_sanitize", "sanitize_name"}
    THEN {InvalidNameChars[i] : i \in DOMAIN InvalidNameChars}
    ELSE {InvalidFileChars[i] : i \in DOMAIN InvalidFileChars}

\* C16: each of the four sanitizers returns a name without invalid
\* characters unchanged, and applied to its own result returns that result
C16_SanitizeIdempotent ==
    (ret.op \in Sanitizers) =>
        /\ (ret.times = 2) => ret.value = ret.prev
        /\ (ret.times = 1 /\ \A i \in DOMAIN ret.name : ret.name[i] \notin InvalidFor(ret.op))
              => ret.value = ret.name

C16_Witness ==
    /\ ret.op = "_sanitize"
    /\ ret.times = 2
    /\ ret.name = <<"a", "dot">>
    /\ ret.value = <<"a", "_">>


----------------------------------------------------------------------------
(* Engine-host import of files carrying animation metadata: a root layer   *)
(* at MainTarget with its own custom data and a list of sublayers, each    *)
(* present with its own custom data or missing from disk.                  *)

\* longest sublayer list of an imported file
MaxSublayers == 2

SublayerPaths == <<MainBase, BaseOfBase, BaseOfMayaOver>>

AnimKeys == {"has_animation", "start_frame", "end_frame", "fps", "animated_objects"}

\* custom data as animation exports write it, with two different ranges
AnimatedA ==
    [keys |-> AnimKeys, has_animation |-> TRUE, start_frame |-> 10, end_frame |-> 20,
     fps |-> 30, animated_objects |-> 2, animated_actors |-> 0]
AnimatedB ==
    [keys |-> AnimKeys, has_animation |-> TRUE, start_frame |-> 2, end_frame |-> 3,
     fps |-> 12, animated_objects |-> 1, animated_actors |-> 0]
\* a range without animation
StaticRange ==
    [keys |-> AnimKeys, has_animation |-> FALSE, start_frame |-> 5, end_frame |-> 50,
     fps |-> 25, animated_objects |-> 0, animated_actors |-> 0]
\* the flag alone
FlagOnly == [NoAnim EXCEPT !.keys = {"has_animation"}, !.has_animation = TRUE]

AnimOptions == {NoAnim, AnimatedA, AnimatedB, StaticRange, FlagOnly}

\* stands for a sublayer path with no file behind it
MissingLayer == [NoAnim EXCEPT !.keys = {"missing"}]

InitImport ==
    /\ ret = Ret("init", NoPath, "none", 0, FALSE, NoResult, NoPath)
    /\ actor = NoPath /\ proxy = NoProxy
    /\ hist = <<>> /\ pure = TRUE /\ pc = <<>> /\ loc = <<>>
    /\ \E own \in AnimOptions, n \in 0..MaxSublayers :
          \E subs \in [1..n -> AnimOptions \cup {MissingLayer}] :
              disk = [p \in {MainTarget}
                            \cup {SublayerPaths[i] : i \in {j \in 1..n : subs[j] # MissingLayer}}
                      |-> IF p = MainTarget
                          THEN [EmptyStage EXCEPT !.anim = own,
                                                  !.sublayers = SubSeq(SublayerPaths, 1, n)]
                          ELSE [EmptyStage EXCEPT
                                   !.anim = subs[CHOOSE i \in 1..n : SublayerPaths[i] = p]]]

NextImport ==
    \E p \in KnownPaths, has_sequence \in BOOLEAN : ImportUsdFromMaya(p, has_sequence)

SpecImport == InitImport /\ [][NextImport]_vars

\* the values one layer's custom data gives, key by key, with the defaults
\* for the keys it lacks
ValuesOf(c) ==
    [has_animation |-> IF "has_animation" \in c.keys THEN c.has_animation ELSE FALSE,
     start_frame |-> IF "start_frame" \in c.keys THEN c.start_frame ELSE 1,
     end_frame |-> IF "end_frame" \in c.keys THEN c.end_frame ELSE 120,
     fps |-> IF "fps" \in c.keys THEN c.fps ELSE 24,
     animated_count |-> IF "animated_objects" \in c.keys THEN c.animated_objects ELSE 0]

\* the positions of the sublayers of root that are on disk and flagged animated
AnimatedSublayers(root) ==
    {i \in DOMAIN root.sublayers :
        /\ Exists(disk, root.sublayers[i])
        /\ "has_animation" \in disk[root.sublayers[i]].anim.keys
        /\ disk[root.sublayers[i]].anim.has_animation}

\* C17: a successful engine-host import of a file without sublayers takes the
\* animation values from the file's own custom data; with sublayers it takes
\* them from the first sublayer flagged animated and never from the file
\* itself; values not found are has_animation=false, start=1, end=120,
\* fps=24, count=0; the level sequence is configured only with animation
C17_ImportAnimationMetadata ==
    (ret.op = "import_usd_from_maya" /\ ret.result.success) =>
        LET root == disk[ret.path]
            hits == AnimatedSublayers(root)
            first == CHOOSE i \in hits : \A j \in hits : i <= j
        IN  /\ (root.sublayers = <<>>) => ret.anim = ValuesOf(root.anim)
            /\ (root.sublayers # <<>> /\ hits # {}) =>
                  ret.anim = ValuesOf(disk[root.sublayers[first]].anim)
            /\ (root.sublayers # <<>> /\ hits = {}) =>
                  ret.anim = [has_animation |-> FALSE, start_frame |-> 1,
                              end_frame |-> 120, fps |-> 24, animated_count |-> 0]
            /\ ret.sequence.configured => ret.anim.has_animation

\* the root is animated and so are both sublayers, the first with a range
\* that differs from the root's and from the second's; the sequence is set
C17_Witness ==
    /\ ret.op = "import_usd_from_maya" /\ ret.result.success
    /\ ret.path = MainTarget
    /\ disk[MainTarget].anim = AnimatedA
    /\ Len(disk[MainTarget].sublayers) = 2
    /\ AnimatedSublayers(disk[MainTarget]) = {1, 2}
    /\ disk[MainBase].anim = AnimatedB
    /\ disk[BaseOfBase].anim = AnimatedA
    /\ ret.anim.start_frame = 2
    /\ ret.sequence.configured /\ ret.sequence.playback_end = 3


----------------------------------------------------------------------------
(* Camera converter of the animation host: maya_camera_utils.py.  Lengths  *)
(* read from the camera prim are in tenths of a millimeter (35 is 3.5 mm); *)
(* a native film aperture, in inches, is the fraction mm10 / 254.          *)

\* attr.Get() returned None
NoValue == -1

\* 3.5, 9.9, 10.0, 24.0, 35.0 and 36.0 mm
LensValues == {35, 99, 100, 240, 350, 360}

CameraPrims ==
    [type : {"Camera", "Xform"}, focalLength : LensValues \cup {NoValue},
     horizontalAperture : LensValues \cup {NoValue},
     verticalAperture : LensValues \cup {NoValue}, rotateY : {0, 90}]

\* lines 57-59: 35 mm, 36 / 25.4 and 24 / 25.4 inches
DefaultLens == [focal_length |-> 350, h_aperture |-> 360, v_aperture |-> 240]

\* lines 67-70, 76-79, 85-88: "if val < 10: val * 10.0", in tenths of a mm
rescale(val) == IF val < 100 THEN val * 10 ELSE val

\* lines 50-52: return None
NoCamera ==
    [created |-> FALSE, focalLength |-> 0, horizontalFilmAperture |-> 0,
     verticalFilmAperture |-> 0, rotateY |-> 0]

\* lines 28-168; the result is the native camera, or none for a prim that is
\* not a camera
create_maya_camera_from_usd(prim) ==
    IF prim.type # "Camera" THEN NoCamera
    ELSE [created |-> TRUE,
          focalLength |-> IF prim.focalLength # NoValue
                          THEN rescale(prim.focalLength)
                          ELSE DefaultLens.focal_length,
          horizontalFilmAperture |-> IF prim.horizontalAperture # NoValue
                                     THEN rescale(prim.horizontalAperture)
                                     ELSE DefaultLens.h_aperture,
          verticalFilmAperture |-> IF prim.verticalAperture # NoValue
                                   THEN rescale(prim.verticalAperture)
                                   ELSE DefaultLens.v_aperture,
          rotateY |-> prim.rotateY - 90]

InitCamera ==
    /\ disk = <<>> /\ actor = NoPath /\ proxy = NoProxy
    /\ hist = <<>> /\ pure = TRUE /\ pc = <<>> /\ loc = <<>>
    /\ \E prim \in CameraPrims :
          ret = [op |-> "camera_prim", prim |-> prim,
                 camera |-> NoCamera]

CreateMayaCameraFromUsd ==
    /\ ret.op = "camera_prim"
    /\ ret' = [ret EXCEPT !.op = "create_maya_camera_from_usd",
                          !.camera = create_maya_camera_from_usd(ret.prim)]
    /\ UNCHANGED <<disk, actor, proxy, hist, pure, pc, loc>>

NextCamera == CreateMayaCameraFromUsd

SpecCamera == InitCamera /\ [][NextCamera]_vars

\* C18: every lens value read from a camera prim is taken as millimeters: the
\* native focal length is the value itself and each native film aperture is
\* the value / 25.4, also for values below 10
C18_LensUnitsTrusted ==
    (ret.op = "create_maya_camera_from_usd" /\ ret.camera.created) =>
        /\ (ret.prim.focalLength # NoValue) =>
              ret.camera.focalLength = ret.prim.focalLength
        /\ (ret.prim.horizontalAperture # NoValue) =>
              ret.camera.horizontalFilmAperture = ret.prim.horizontalAperture
        /\ (ret.prim.verticalAperture # NoValue) =>
              ret.camera.verticalFilmAperture = ret.prim.verticalAperture


----------------------------------------------------------------------------
(* Further properties of the layer protection manager (SpecProtect) *)

\* C19: ensure_override_for_edit on an actor whose file is a BASE whose
\* engine-host override already exists leaves that override as it was:
\* same prims, same sublayer list, same custom metadata
C19_OverrideReused ==
    [][(/\ ret'.op = "ensure_override_for_edit"
        /\ setup_from_stage_actor(disk, actor)
        /\ get_layer_type(disk, actor) = "base"
        /\ Exists(disk, EngineOverrideOf(actor)))
          => /\ Exists(disk', EngineOverrideOf(actor))
             /\ disk'[EngineOverrideOf(actor)] = disk[EngineOverrideOf(actor)]]_vars


----------------------------------------------------------------------------
(* One stage of the animation host whose parent transform the artist may   *)
(* also rotate by hand.                                                    *)

\* 0, 0.01, 0.02, 45, -89.99, -90 and -90.02 degrees
Rotations == {0, 1, 2, 4500, -8999, -9000, -9002}

\* the artist sets rotateX of the stage's parent transform
SetRotateX(s, r) ==
    /\ proxy[s].valid
    /\ proxy' = [proxy EXCEPT ![s].rotateX = r]
    /\ ret' = RetStage("setAttr", s, proxy[s].filePath, NoResult)
    /\ QuickFrame

NextRotate ==
    \/ \E sel \in Sels : ExportSelectedToUsd(MainTarget, sel)
    \/ \E sel \in Sels : MayaExportSelectedToUsd(MainTarget, sel)
    \/ CreateBaseLayer(MainTarget)
    \/ \E p \in KnownPaths : ImportUsdFromUnreal("stage1", p)
    \/ \E r \in Rotations : SetRotateX("stage1", r)
    \/ \E p \in KnownPaths \cup {NoPath} : UpdateExistingStage("stage1", p)

SpecRotate == Init /\ [][NextRotate]_vars

\* a successful quick update of stage s has just happened
UpdatedStage(s) ==
    /\ ret'.op = "update_existing_stage"
    /\ ret'.stage = s
    /\ ret'.result.success

\* C20 as stated: after a successful update to a file marked override rotateX
\* is 0 whatever it was; to a file marked base it is -90 for a Z-up file and
\* 0 for a Y-up file; to a file with neither mark it is unchanged
C20_RotationExact ==
    [][\A s \in Stages : UpdatedStage(s) =>
          LET f == disk[proxy'[s].filePath] IN
          /\ (f.ltype = "override") => proxy'[s].rotateX = 0
          /\ (f.ltype = "base" /\ get_stage_up_axis(disk, proxy'[s].filePath) = "Z")
                => proxy'[s].rotateX = -RightAngle
          /\ (f.ltype = "base" /\ get_stage_up_axis(disk, proxy'[s].filePath) = "Y")
                => proxy'[s].rotateX = 0
          /\ (f.ltype \notin {"override", "base"})
                => proxy'[s].rotateX = proxy[s].rotateX]_vars

\* rotateX after an update whose target rotation is goal: the goal itself if
\* it was more than 0.01 degrees away, otherwise what it was
Reconciled(s, goal) ==
    /\ Abs(proxy'[s].rotateX - goal) <= Tolerance
    /\ (Abs(proxy[s].rotateX - goal) > Tolerance) => proxy'[s].rotateX = goal
    /\ (Abs(proxy[s].rotateX - goal) <= Tolerance) => proxy'[s].rotateX = proxy[s].rotateX

\* C20: after a successful update rotateX is within 0.01 degrees of 0 for a
\* file marked override, of -90 for a Z-up file marked base and of 0 for a
\* Y-up file marked base, and exactly that value if it was further away
\* before; for a file with neither mark it is unchanged
C20_RotationReconciled ==
    [][\A s \in Stages : UpdatedStage(s) =>
          LET f == disk[proxy'[s].filePath] IN
          /\ (f.ltype = "override") => Reconciled(s, 0)
          /\ (f.ltype = "base" /\ get_stage_up_axis(disk, proxy'[s].filePath) = "Z")
                => Reconciled(s, -RightAngle)
          /\ (f.ltype = "base" /\ get_stage_up_axis(disk, proxy'[s].filePath) = "Y")
                => Reconciled(s, 0)
          /\ (f.ltype \notin {"override", "base"})
                => proxy'[s].rotateX = proxy[s].rotateX]_vars

\* a stage rotated by 45 degrees was updated to an override and is at 0
C20_Witness ==
    /\ ret.op = "update_existing_stage" /\ ret.result.success
    /\ ret.old_rotateX = 4500
    /\ disk[proxy["stage1"].filePath].ltype = "override"
    /\ proxy["stage1"].rotateX = 0

----------------------------------------------------------------------------
(* Quick update and the way back: quick_updater.py 119-250 and 294-345 on  *)
(* the files of two layouts, shot.usda and the layout exported under the   *)
(* name shot_BASE.usda.                                                    *)

NextSwitch ==
    \/ \E t \in {MainTarget, MainBase}, sel \in 1..MaxSel : ExportSelectedToUsd(t, sel)
    \/ \E p \in KnownPaths : ImportUsdFromUnreal("stage1", p)
    \/ \E p \in KnownPaths \cup {NoPath} : UpdateExistingStage("stage1", p)
    \/ SwitchToBaseLayer("stage1")

SpecSwitch == Init /\ [][NextSwitch]_vars

\* the last call was switch_to_base_layer
Switched == ret.op = "switch_to_base_layer"

\* switch_to_base_layer resolved the BASE of the file the proxy was on
ResolvedBase == find_base_layer_for_file(disk, ret.before.filePath)

\* the proxy pointed at its BASE, or no BASE could be resolved
C21_SwitchNoOp ==
    Switched /\ ret.before.valid =>
        /\ ResolvedBase = ret.before.filePath =>
                ret.result.success /\ proxy[ret.stage] = ret.before
        /\ ResolvedBase = NoPath =>
                ~ret.result.success /\ proxy[ret.stage] = ret.before

\* C21 as stated: switch_to_base_layer is the inverse of a quick update: a
\* proxy on BASE B that is successfully updated and then switched back has
\* filePath B again; a proxy already on its BASE is left as it is with
\* success; with no BASE to resolve the call fails and changes nothing
C21_SwitchInvertsUpdate ==
    /\ C21_SwitchNoOp
    /\ (Switched /\ ret.updated_from # NoPath
            /\ is_base_layer(disk, ret.updated_from)) =>
          proxy[ret.stage].filePath = ret.updated_from

\* C21 amended: the way back leads to B when the quick update looked the
\* override up itself (no new_usd_path given) and the file B is still on
\* disk; the two no-op cases hold
C21_SwitchInvertsAutoUpdate ==
    /\ C21_SwitchNoOp
    /\ (Switched /\ ret.updated_auto
            /\ is_base_layer(disk, ret.updated_from)
            /\ Exists(disk, ret.updated_from)) =>
          /\ ret.result.success
          /\ proxy[ret.stage].filePath = ret.updated_from
          /\ ret.before.filePath = find_override_layer(disk, ret.updated_from, "unreal")

\* a proxy on shot_BASE.usda was updated to the engine's override and
\* switched back
C21_Witness ==
    /\ Switched /\ ret.updated_auto /\ ret.updated_from = MainBase
    /\ ret.before.filePath = MainOver
    /\ proxy[ret.stage].filePath = MainBase

----------------------------------------------------------------------------
(* Batch update: quick_updater.py 25-40 and 253-291 *)

\* list_all_usd_stages: the transforms that carry a proxy shape, in scene order
StageOrder == <<"stage1", "stage2">>

list_all_usd_stages(pr) == SelectSeq(StageOrder, LAMBDA s : pr[s].valid)

NoResults == [s \in {} |-> NoResult]

\* mutant: the loop ends at the first stage that fails
RECURSIVE update_stages_until_failure(_, _, _, _, _)
update_stages_until_failure(d, pr, stages, results, success_count) ==
    IF stages = <<>>
    THEN [proxy |-> pr, results |-> results, updated |-> success_count]
    ELSE LET stage == Head(stages)
             r == update_existing_stage(d, pr[stage], NoPath)
         IN  IF ~r.result.success
             THEN [proxy |-> pr, results |-> results @@ (stage :> r.result),
                   updated |-> success_count]
             ELSE update_stages_until_failure(d, [pr EXCEPT ![stage] = r.proxy],
                      Tail(stages), results @@ (stage :> r.result),
                      success_count + 1)

\* lines 271-280: the loop over the stages
RECURSIVE update_stages(_, _, _, _, _)
update_stages(d, pr, stages, results, success_count) ==
    IF stages = <<>>
    THEN [proxy |-> pr, results |-> results, updated |-> success_count]
    ELSE LET stage == Head(stages)
             r == update_existing_stage(d, pr[stage], NoPath)
         IN  update_stages(d, [pr EXCEPT ![stage] = r.proxy], Tail(stages),
                           results @@ (stage :> r.result),
                           IF r.result.success THEN success_count + 1
                           ELSE success_count)

update_all_stages_to_unreal(d, pr) ==
    LET stages == list_all_usd_stages(pr)
        r == update_stages(d, pr, stages, NoResults, 0)
    IN  IF stages = <<>>
        THEN [proxy |-> pr, result |-> Failure("No stages"), total |-> 0,
              updated |-> 0, results |-> NoResults]
        ELSE [proxy |-> r.proxy, result |-> Success("none", NoPath, NoPath),
              total |-> Len(stages), updated |-> r.updated, results |-> r.results]

UpdateAllStagesToUnreal ==
    LET r == update_all_stages_to_unreal(disk, proxy) IN
    /\ proxy' = r.proxy
    /\ ret' = [before |-> proxy, total |-> r.total, updated |-> r.updated,
               results |-> r.results]
              @@ RetStage("update_all_stages_to_unreal", "none", NoPath, r.result)
    /\ QuickFrame

\* The batch update on the stages imported from two layouts
NextBatch ==
    \/ \E t \in {MainTarget, MainBase}, sel \in 1..MaxSel : ExportSelectedToUsd(t, sel)
    \/ \E s \in Stages, p \in DOMAIN disk : ImportUsdFromUnreal(s, p)
    \/ UpdateAllStagesToUnreal

SpecBatch == Init /\ [][NextBatch]_vars

\* the stage proxies in the scene before the batch ran
StagesBefore == {s \in Stages : ret.before[s].valid}

\* C22: update_all_stages_to_unreal processes every stage proxy exactly
\* once even when some updates fail: one result per stage, total is the
\* number of stages, updated the number of successful results; a failed
\* stage keeps its filePath, and every stage whose own quick update
\* succeeds is updated whatever happened to the others
C22_BatchUpdate ==
    (ret.op = "update_all_stages_to_unreal" /\ StagesBefore # {}) =>
        /\ ret.result.success
        /\ DOMAIN ret.results = StagesBefore
        /\ ret.total = Cardinality(StagesBefore)
        /\ ret.updated = Cardinality({s \in StagesBefore : ret.results[s].success})
        /\ \A s \in StagesBefore :
              LET alone == update_existing_stage(disk, ret.before[s], NoPath) IN
              /\ ret.results[s] = alone.result
              /\ proxy[s] = alone.proxy
              /\ ~ret.results[s].success => proxy[s] = ret.before[s]
        /\ \A s \in Stages \ StagesBefore : proxy[s] = ret.before[s]

\* the first stage failed and the second one was updated all the same
C22_Witness ==
    /\ ret.op = "update_all_stages_to_unreal"
    /\ StagesBefore = Stages
    /\ ~ret.results["stage1"].success
    /\ ret.results["stage2"].success
    /\ proxy["stage2"].filePath # ret.before["stage2"].filePath
    /\ ret.updated = 1 /\ ret.total = 2

----------------------------------------------------------------------------
(* Stepped animation export: animation_exporter.py 92-183.  A prim is its  *)
(* three transform attributes (is there a default value, the times of its  *)
(* time samples), its xformOpOrder and its interpolation attribute.        *)

XformOps == <<"translate", "rotate", "scale">>

NoAttr == [authored |-> FALSE, default |-> FALSE, times |-> {}]

\* a prim just defined on a stage
FreshPrim ==
    [translate |-> NoAttr, rotate |-> NoAttr, scale |-> NoAttr,
     xformOpOrder |-> <<>>, interpolation |-> "none"]

StaticAttr == [authored |-> TRUE, default |-> TRUE, times |-> {}]

\* a prim with the transform the layout exporter sets on it,
\* maya_layout_export.py 148-160
StaticPrim ==
    [translate |-> StaticAttr, rotate |-> StaticAttr, scale |-> StaticAttr,
     xformOpOrder |-> XformOps, interpolation |-> "none"]

Prims == {FreshPrim, StaticPrim}

\* op.Set(value, frame) for every frame of the samples: the attribute is
\* created if the prim has none of that name, and gains the time samples
set_samples(attr, frames) ==
    [attr EXCEPT !.authored = TRUE, !.times = attr.times \cup frames]

\* mutant: the range is sampled on every frame
export_stepped_animation_baked(obj, prim, start_frame, end_frame) ==
    LET keyframes == get_all_keyframes(obj, start_frame, end_frame)
        frames == start_frame..end_frame
    IN  IF Len(keyframes) <= 1 THEN [prim |-> prim, value |-> FALSE]
        ELSE [prim |-> [translate |-> set_samples(prim.translate, frames),
                        rotate |-> set_samples(prim.rotate, frames),
                        scale |-> set_samples(prim.scale, frames),
                        xformOpOrder |-> XformOps,
                        interpolation |-> "held"],
              value |-> TRUE]

export_stepped_animation(obj, prim, start_frame, end_frame) ==
    LET keyframes == get_all_keyframes(obj, start_frame, end_frame)
        frames == {keyframes[i] : i \in DOMAIN keyframes}
    IN  IF Len(keyframes) <= 1 THEN [prim |-> prim, value |-> FALSE]
        ELSE [prim |-> [translate |-> set_samples(prim.translate, frames),
                        rotate |-> set_samples(prim.rotate, frames),
                        scale |-> set_samples(prim.scale, frames),
                        xformOpOrder |-> XformOps,
                        interpolation |-> "held"],
              value |-> TRUE]

\* the scene before the call: an object keyed on a translate and on a
\* rotate channel, and a frame range of the timeline
InitStepped ==
    /\ disk = <<>> /\ actor = NoPath /\ proxy = NoProxy
    /\ hist = <<>> /\ pure = TRUE /\ pc = <<>> /\ loc = <<>>
    /\ \E K1, K2 \in SUBSET Times, start_frame \in Times, end_frame \in Times :
          /\ start_frame <= end_frame
          /\ ret = [op |-> "scene", object |-> Keyed("tx", K1, "ry", K2),
                    start |-> start_frame, end |-> end_frame, value |-> <<>>]

ExportSteppedAnimation ==
    /\ ret.op = "scene"
    /\ \E prim \in Prims :
          LET r == export_stepped_animation(ret.object, prim, ret.start, ret.end) IN
          ret' = [op |-> "export_stepped_animation", object |-> ret.object,
                  start |-> ret.start, end |-> ret.end, value |-> r.value,
                  before |-> prim, prim |-> r.prim]
    /\ UNCHANGED <<disk, actor, proxy, hist, pure, pc, loc>>

NextStepped == ExportSteppedAnimation

SpecStepped == InitStepped /\ [][NextStepped]_vars

\* the times get_all_keyframes returns for the exported object
KeyTimes ==
    LET keyframes == get_all_keyframes(ret.object, ret.start, ret.end) IN
    {keyframes[i] : i \in DOMAIN keyframes}

\* C23: export_stepped_animation returns false and authors nothing on the
\* prim when get_all_keyframes yields fewer than two times (start = end
\* included); otherwise it returns true and the translate, rotate and scale
\* operations carry time samples at exactly the times get_all_keyframes
\* returned
C23_SteppedSamples ==
    (ret.op = "export_stepped_animation") =>
        IF Cardinality(KeyTimes) < 2
        THEN ~ret.value /\ ret.prim = ret.before
        ELSE /\ ret.value
             /\ ret.prim.xformOpOrder = XformOps
             /\ \A op \in {"translate", "rotate", "scale"} :
                   ret.prim[op].authored /\ ret.prim[op].times = KeyTimes

\* an export over frames 1..3 of an object keyed inside the range that left
\* samples at 1 and 3 only on a prim that had a static transform
C23_Witness ==
    /\ ret.op = "export_stepped_animation"
    /\ ret.value /\ ret.start = 1 /\ ret.end = 3
    /\ ret.prim.translate.times = {1, 3}
    /\ ret.prim.scale.times = {1, 3}
    /\ ret.before = StaticPrim

----------------------------------------------------------------------------
(* Engine-host animation check: layout_export.py 17-55 and 257-333.  A     *)
(* mesh actor is the transform its level sequence gives it at each frame   *)
(* and the frame the editor stands on; get_actor_transform reads the       *)
(* transform at that frame.                                                *)

\* lines 91-92: the fixed range starts at frame 1; its last frame, 120 in
\* the code, is scaled down
EndFrame == 3

FrameRange == 1..EndFrame

SequencedActors ==
    [translate : [FrameRange -> SampleValues], rotate : [FrameRange -> SampleValues],
     scale : [FrameRange -> SampleValues], now : FrameRange]

\* actor.get_actor_transform()
get_actor_transform(a) ==
    [translate |-> a.translate[a.now], rotate |-> a.rotate[a.now],
     scale |-> a.scale[a.now]]

\* lines 43-53: the sequencer is not advanced, every frame gets the
\* current transform
sample_actor_animation(a, start_frame, end_frame) ==
    LET xf == get_actor_transform(a) IN
    [kind |-> "series",
     translate |-> [frame \in start_frame..end_frame |-> xf.translate],
     rotate |-> [frame \in start_frame..end_frame |-> xf.rotate],
     scale |-> [frame \in start_frame..end_frame |-> xf.scale]]

\* lines 257-303 and 328-330 for one selected mesh actor: the time samples
\* authored on its prim and the animation metadata of the stage
export_actor_animation(a) ==
    LET anim_samples == sample_actor_animation(a, 1, EndFrame)
        animated == has_varying_samples(anim_samples).value
        animated_actors_count == IF animated THEN 1 ELSE 0
    IN  [times |-> IF animated THEN DOMAIN anim_samples.translate ELSE {},
         animated_actors |-> animated_actors_count,
         has_animation |-> animated_actors_count > 0]

InitSequence ==
    /\ disk = <<>> /\ actor = NoPath /\ proxy = NoProxy
    /\ hist = <<>> /\ pure = TRUE /\ pc = <<>> /\ loc = <<>>
    /\ \E a \in SequencedActors :
          ret = [op |-> "level", selected |-> a, times |-> {},
                 animated_actors |-> 0, has_animation |-> FALSE]

ExportActorAnimation ==
    LET r == export_actor_animation(ret.selected) IN
    /\ ret.op = "level"
    /\ ret' = [op |-> "export_selected_to_usd", selected |-> ret.selected,
               times |-> r.times, animated_actors |-> r.animated_actors,
               has_animation |-> r.has_animation]
    /\ UNCHANGED <<disk, actor, proxy, hist, pure, pc, loc>>

NextSequence == ExportActorAnimation

SpecSequence == InitSequence /\ [][NextSequence]_vars

\* the transform of the actor takes at least two values over the range
Moves(a) ==
    \E ch \in {"translate", "rotate", "scale"} :
        Cardinality({a[ch][frame] : frame \in FrameRange}) > 1

\* C24: a selected mesh actor whose transform takes at least two distinct
\* values over the frames of the range is exported as animated: it is
\* counted in animated_actors, layoutlink_has_animation is true, and its
\* prim has a time sample at every frame from start to end
C24_AnimatedActorExported ==
    (ret.op = "export_selected_to_usd" /\ Moves(ret.selected)) =>
        /\ ret.animated_actors >= 1
        /\ ret.has_animation
        /\ ret.times = FrameRange

----------------------------------------------------------------------------
(* Namespace and hierarchy prefixes: maya_layout_export.py 10-18 *)

\* the part of a name after its last namespace and hierarchy separator
short_segment(name) == last_part(last_part(name, "colon"), "pipe")

\* C25: sanitize_name of the animation host maps ns:obj and parent|obj to
\* the sanitized form of the last segment obj alone
C25_PrefixStripped ==
    (ret.op = "sanitize_name" /\ ret.times = 1) =>
        ret.value = replace_chars(short_segment(ret.name), InvalidNameChars)

----------------------------------------------------------------------------
(* Counters of the export results: layout_export.py 124-316 and 398-433,   *)
(* maya_layout_export.py 94-170 and 208-216                                *)

\* the cameras of an engine-host selection
CameraCount(selected) ==
    Cardinality({i \in DOMAIN selected : selected[i].kind = "camera"})

\* C26: in a successful engine-host export actors_with_refs +
\* actors_without_refs + cameras_exported = actor_count = the number of
\* selected actors, cameras are in neither reference counter, and
\* missing_meshes is no longer than actors_without_refs; in a successful
\* animation-host export objects_with_refs + objects_without_refs =
\* object_count = the number of selected transforms
C26_CounterConservation ==
    (ret.op # "init" /\ ret.result.success) =>
        LET c == ret.counts IN
        IF ret.host = "unreal"
        THEN /\ c.with_refs + c.without_refs + c.cameras = c.exported
             /\ c.exported = Len(ret.selected)
             /\ c.cameras = CameraCount(ret.selected)
             /\ c.with_refs + c.without_refs = Len(ret.selected) - CameraCount(ret.selected)
             /\ Len(c.missing_meshes) <= c.without_refs
        ELSE /\ c.with_refs + c.without_refs = c.exported
             /\ c.exported = Len(ret.selected)

\* an engine-host export of a camera and a mesh whose file is missing
C26_Witness ==
    /\ ret.op = "export_selected_to_usd" /\ ret.result.success
    /\ ret.selected = <<Camera, MeshActor("chair")>>
    /\ ret.lib.exists /\ "chair" \notin ret.lib.files
    /\ ret.counts.cameras = 1 /\ ret.counts.without_refs = 1
    /\ ret.counts.missing_meshes = <<"chair">>

----------------------------------------------------------------------------
(* Mesh library: the file a mesh is exported under (mesh_export.py 18-39,  *)
(* maya_mesh_export.py 23-45) and the file the layout exporter of the same *)
(* host looks for (layout_export.py 222-243, maya_layout_export.py         *)
(* 115-125).  The library is the set of its file names without ".usda".    *)

Hosts == {"unreal", "maya"}

\* safe_name of export_mesh_to_usd
library_name(host, name) ==
    IF host = "unreal" THEN sanitize_filename(name) ELSE maya_sanitize_filename(name)

\* mesh_name of the layout exporter
probed_name(host, name) ==
    IF host = "unreal" THEN sanitize(name) ELSE maya_sanitize_name(name)

\* the library after one mesh was exported to it
export_mesh_to_usd(host, name) ==
    [exists |-> TRUE, files |-> {library_name(host, name)}]

\* the counters of a layout export of one object that uses the mesh
layout_counts(host, name, lib) ==
    IF host = "unreal"
    THEN count_actor(NoCounts, MeshActor(probed_name(host, name)), lib)
    ELSE maya_count_object(NoCounts, MeshActor(probed_name(host, name)), lib)

ExportMeshToUsd(host) ==
    /\ ret.op = "name"
    /\ ret' = [op |-> "export_mesh_to_usd", name |-> ret.name, host |-> host,
               lib |-> export_mesh_to_usd(host, ret.name), counts |-> NoCounts]
    /\ UNCHANGED <<disk, actor, proxy, hist, pure, pc, loc>>

LayoutExportWithLibrary ==
    /\ ret.op = "export_mesh_to_usd"
    /\ ret' = [ret EXCEPT !.op = "export_selected_to_usd",
                          !.counts = layout_counts(ret.host, ret.name, ret.lib)]
    /\ UNCHANGED <<disk, actor, proxy, hist, pure, pc, loc>>

NextLibrary ==
    \/ \E host \in Hosts : ExportMeshToUsd(host)
    \/ LayoutExportWithLibrary

SpecLibrary == InitNames /\ [][NextLibrary]_vars

\* C27: the file name the Mesh Library Exporter writes a mesh under is the
\* file name the Layout Exporter of the same host probes for it, so a
\* layout export that follows the mesh export counts the object as with
\* reference
C27_LibraryNameAgreement ==
    (ret.op = "export_selected_to_usd") =>
        /\ library_name(ret.host, ret.name) = probed_name(ret.host, ret.name)
        /\ ret.counts.with_refs = 1
        /\ ret.counts.missing_meshes = <<>>

----------------------------------------------------------------------------
(* Prim paths of the engine-host export: layout_export.py 133-217.  The    *)
(* stage is the set of prim paths under /World, each with the actor that   *)
(* defined it last.                                                        *)

\* actor labels: a letter, an underscore and a space
LabelChars == {"a", "_", "space"}

Labels == UNION {[1..n -> LabelChars] : n \in 1..MaxNameLen}

LabelledSelections == UNION {[1..n -> Labels] : n \in 1..MaxSel}

\* prim_path = f"/World/{nice}"
prim_path(label) == <<"World">> \o sanitize(label)

NoPrims == [p \in {} |-> 0]

\* the loop at line 133: Define at lines 148 and 211 opens the prim that is
\* already at the path, and the actor's type, transform and reference
\* replace what was authored there
RECURSIVE define_prims(_, _, _)
define_prims(selected, i, prims) ==
    IF i > Len(selected) THEN prims
    ELSE define_prims(selected, i + 1, (prim_path(selected[i]) :> i) @@ prims)

InitPrims ==
    /\ disk = <<>> /\ actor = NoPath /\ proxy = NoProxy
    /\ hist = <<>> /\ pure = TRUE /\ pc = <<>> /\ loc = <<>>
    /\ \E selected \in LabelledSelections :
          ret = [op |-> "level", selected |-> selected, prims |-> NoPrims,
                 actor_count |-> 0]

ExportLabelledActors ==
    /\ ret.op = "level"
    /\ ret' = [ret EXCEPT !.op = "export_selected_to_usd",
                          !.prims = define_prims(ret.selected, 1, NoPrims),
                          !.actor_count = Len(ret.selected)]
    /\ UNCHANGED <<disk, actor, proxy, hist, pure, pc, loc>>

NextPrims == ExportLabelledActors

SpecPrims == InitPrims /\ [][NextPrims]_vars

DistinctLabels(selected) ==
    \A i, j \in DOMAIN selected : i # j => selected[i] # selected[j]

\* C28: actors with pairwise distinct labels are written to pairwise
\* distinct prim paths: the stage has as many prims under /World as the
\* reported actor_count and every actor's prim is still its own
C28_PrimPathsInjective ==
    (ret.op = "export_selected_to_usd" /\ DistinctLabels(ret.selected)) =>
        /\ Cardinality(DOMAIN ret.prims) = ret.actor_count
        /\ \A i \in DOMAIN ret.selected : ret.prims[prim_path(ret.selected[i])] = i

----------------------------------------------------------------------------
(* Up-axis alignment of a stage proxy over quick updates and switches:     *)
(* quick_updater.py 193-232 and 327-337                                    *)

\* the last call was a successful quick update or switch that left the
\* proxy on a file marked base or override
AlignedCall ==
    /\ ret.op \in {"update_existing_stage", "switch_to_base_layer"}
    /\ ret.result.success
    /\ CanOpen(disk, proxy[ret.stage].filePath)
    /\ disk[proxy[ret.stage].filePath].ltype \in {"base", "override"}

\* C29: after successful update_existing_stage and switch_to_base_layer
\* calls the parent transform's rotateX is -90 exactly when the loaded file
\* is a BASE declared Z-up, and 0 when it is an OVERRIDE or a Y-up BASE
C29_UpAxisAlignment ==
    AlignedCall =>
        LET loaded == proxy[ret.stage].filePath IN
        proxy[ret.stage].rotateX =
            IF disk[loaded].ltype = "base" /\ get_stage_up_axis(disk, loaded) = "Z"
            THEN -RightAngle ELSE 0

----------------------------------------------------------------------------
(* Result of the engine-host export against the disk: layout_export.py     *)
(* 361-433                                                                 *)

\* C30: after a successful export_selected_to_usd to any target path, with
\* or without the .usda extension, the file named by file_path exists, the
\* file named by base_path (when present) exists and is another file than
\* file_path, and no plain export file is left at the target path
C30_ResultValid ==
    (ret.op = "export_selected_to_usd" /\ ~ret.raised /\ ret.result.success) =>
        /\ Exists(disk, ret.result.file_path)
        /\ ret.result.base_path # NoPath =>
              /\ Exists(disk, ret.result.base_path)
              /\ ret.result.base_path # ret.result.file_path
        /\ ~Exists(disk, ret.path)

\* a second export to the target shot_BASE.usda returned an override next
\* to the BASE of that target
C30_Witness ==
    /\ ret.op = "export_selected_to_usd" /\ ret.result.success
    /\ ret.path = MainBase
    /\ ret.result.file_path = OverOfBase
    /\ ret.result.base_path = BaseOfBase
    /\ Exists(disk, OverOfBase) /\ Exists(disk, BaseOfBase)
    /\ ~Exists(disk, MainBase)

============================================================================
